---- MODULE Spec2Model ----
(***************************************************************************)
(* The host-side controller of the tiny-YOLO-v3 accelerator: the fixed     *)
(* 14-stage topology (start_processing), the channel-folded streaming      *)
(* protocol of one stage (forward_layer_group) and the LayerGroup buffer   *)
(* accessors.                                                              *)
(*                                                                         *)
(* A Vec<i16> is a sequence of segments.  A segment names a contiguous run *)
(* of elements of one source array (the image, a weights file, the data    *)
(* one DMA read returned, or zero fill), so two buffers are equal exactly  *)
(* when they hold the same elements in the same order.  An Option<T> is a  *)
(* sequence of length 0 (None) or 1 (Some).                                *)
(***************************************************************************)
EXTENDS Integers, Sequences, FiniteSets, TLC

VARIABLES
    layer_groups,     \* self.layer_groups : Vec<LayerGroup>, the fields new computes
    inputs,           \* layer_groups[k].inputs  : Option<Vec<i16>>
    outputs,          \* layer_groups[k].outputs : Option<Vec<i16>>
    weights,          \* layer_groups[k].weights : Option<Vec<i16>>
    biases,           \* layer_groups[k].biases  : Option<Vec<i16>>
    pc,               \* position of the controller inside start_processing
    status,           \* "init", "running", "ok", "err" or "panic"
    error,            \* the message of the error returned ("" when none)
    grp_idx,          \* loop variable of start_processing
    off,              \* output fold of forward_layer_group
    iff,              \* input fold of forward_layer_group
    polls,            \* busy answers seen in the current busy-wait loop
    acc_input_buff,   \* local of forward_layer_group
    acc_output_buff,  \* local of forward_layer_group
    log,              \* the calls made on the register interface in the current sub-pass
    npass,            \* sub-passes configured so far in the current stage
    ran,              \* the stages whose forward_layer_group returned Ok, in order
    result,           \* Option<(Vec<i16>, Vec<i16>)> returned by start_processing
    args,             \* the arguments of the post-processing function under call
    ret               \* what that function returned

vars == <<layer_groups, inputs, outputs, weights, biases, pc, status, error, grp_idx, off, iff,
          polls, acc_input_buff, acc_output_buff, log, npass, ran, result, args, ret>>

----------------------------------------------------------------------------
(* Bounds of the exploration *)

\* busy answers a busy-wait loop may see before the flag it polls is set
MaxPolls == 1

\* the stages whose weights or biases file may be missing at construction
AbsentStages == {0, 3, 5}

\* direct calls of set_outputs: how many in a row, and the largest off
MaxCalls == 4
MaxOff == 2

\* the stages whose LayerGroup the direct calls are made on
DirectStages == {4, 13}

\* the largest index argument the accessors are tried with
MaxIdx == 3

\* over the life of one controller: the calls of start_processing, and the
\* calls of stop_dmas its owner makes before dropping it
MaxPasses == 3
MaxStops == 1

\* the boxes handed to nms_process: how many, their classes, their confidences
\* (in tenths) and their corners <<x1, y1, x2, y2>>
MaxBoxes == 3
BoxClasses == {0, 1}
BoxConfidences == {1, 5, 7, 9, 12}
BoxCorners == {<<0, 0, 4, 2>>, <<1, 0, 5, 2>>, <<2, 0, 6, 2>>, <<4, 0, 8, 2>>}

\* the thresholds handed to nms_process: obj_threshold in tenths, nms_threshold
\* as <<numerator, denominator>>
ObjThresholds == {2}
NmsThresholds == {<<1, 2>>}

\* the corners of the boxes handed to iou lie in 0 .. MaxCoord
MaxCoord == 3

\* the class scores handed to the class argmax: cls_num, the anchor slots and
\* the raw Q8.8 scores (256 is 1.0)
ClsNum == 3
SlotIndexes == {0, 1}
ScoreValues == {-1, 0, 256}

----------------------------------------------------------------------------
(* Option and Vec *)

None == <<>>
Some(v) == <<v>>
IsSome(o) == Len(o) = 1
IsNone(o) == Len(o) = 0
Unwrap(o) == o[1]

Seg(kind, stage, o, i, beg, len) ==
    [kind |-> kind, stage |-> stage, off |-> o, iff |-> i, beg |-> beg, len |-> len]

\* vec![0i16; n]
ZeroVec(n) == IF n = 0 THEN <<>> ELSE <<Seg("zero", 0, 0, 0, 0, n)>>

\* the n elements one DMA read (or one file, or the caller) delivers
Fresh(kind, stage, o, i, n) == IF n = 0 THEN <<>> ELSE <<Seg(kind, stage, o, i, 0, n)>>

RECURSIVE BufLen(_)
BufLen(b) == IF b = <<>> THEN 0 ELSE Head(b).len + BufLen(Tail(b))

Adjacent(s, t) ==
    /\ s.kind = t.kind /\ s.stage = t.stage /\ s.off = t.off /\ s.iff = t.iff
    /\ (s.kind = "zero" \/ s.beg + s.len = t.beg)

\* Vec::extend
Extend(a, b) ==
    IF a = <<>> THEN b
    ELSE IF b = <<>> THEN a
    ELSE LET s == a[Len(a)]
             t == b[1]
         IN IF Adjacent(s, t)
            THEN SubSeq(a, 1, Len(a) - 1) \o <<[s EXCEPT !.len = s.len + t.len]>> \o Tail(b)
            ELSE a \o b

\* the elements [beg, end) of b, for 0 <= beg <= end <= BufLen(b)
RECURSIVE Slice(_, _, _)
Slice(b, beg, end) ==
    IF b = <<>> \/ end <= 0 \/ beg >= end THEN <<>>
    ELSE LET s == Head(b)
             lo == IF beg > 0 THEN beg ELSE 0
             hi == IF end < s.len THEN end ELSE s.len
             rest == Slice(Tail(b), beg - s.len, end - s.len)
         IN IF lo < hi
            THEN Extend(<<[s EXCEPT !.beg = IF s.kind = "zero" THEN 0 ELSE s.beg + lo,
                                    !.len = hi - lo]>>, rest)
            ELSE rest

\* &v[beg..end] panics unless beg <= end <= v.len()
SliceInRange(b, beg, end) == beg <= end /\ end <= BufLen(b)

----------------------------------------------------------------------------
(* LayerGroup: the fixed configuration *)

CH_FOLD_FACTOR == 4

\* LayerGroup::new with the fold counts rounded down
LayerGroupNewFloor(input_w, input_h, input_ch, input_fold_factor, output_w, output_h, output_ch, output_fold_factor, conv_disable, activate_type, post_process_type, pooling_stride) ==
    [input_width |-> input_w,
     input_height |-> input_h,
     input_ch |-> input_ch,
     input_fold_ch |-> input_ch \div 4,
     input_size |-> input_w * input_h * (input_ch \div 4) * CH_FOLD_FACTOR,
     input_fold_factor |-> input_fold_factor,
     output_width |-> output_w,
     output_height |-> output_h,
     output_ch |-> output_ch,
     output_fold_ch |-> output_ch \div 4,
     output_size |-> output_w * output_h * (output_ch \div 4) * CH_FOLD_FACTOR,
     output_fold_factor |-> output_fold_factor,
     acc_size |-> input_w * input_h * (output_ch \div 4) * CH_FOLD_FACTOR,
     conv_disable |-> conv_disable,
     activate_type |-> activate_type,
     post_process_type |-> post_process_type,
     pooling_stride |-> pooling_stride]

LayerGroupNew(input_w, input_h, input_ch, input_fold_factor, output_w, output_h, output_ch, output_fold_factor, conv_disable, activate_type, post_process_type, pooling_stride) ==
    LET input_fold_ch == (input_ch + 3) \div 4
        output_fold_ch == (output_ch + 3) \div 4
    IN [input_width |-> input_w,
        input_height |-> input_h,
        input_ch |-> input_ch,
        input_fold_ch |-> input_fold_ch,
        input_size |-> input_w * input_h * input_fold_ch * CH_FOLD_FACTOR,
        input_fold_factor |-> input_fold_factor,
        output_width |-> output_w,
        output_height |-> output_h,
        output_ch |-> output_ch,
        output_fold_ch |-> output_fold_ch,
        output_size |-> output_w * output_h * output_fold_ch * CH_FOLD_FACTOR,
        output_fold_factor |-> output_fold_factor,
        acc_size |-> input_w * input_h * output_fold_ch * CH_FOLD_FACTOR,
        conv_disable |-> conv_disable,
        activate_type |-> activate_type,
        post_process_type |-> post_process_type,
        pooling_stride |-> pooling_stride]

\* YoloV3Tiny::init: layer_groups[k] is layer_groups_init[k + 1]
layer_groups_init == <<
    LayerGroupNew(416, 416,  3,  1, 208, 208, 16,  1, FALSE, "Leaky",  "MaxPool",  2),
    LayerGroupNew(208, 208, 16,  1, 104, 104, 32,  1, FALSE, "Leaky",  "MaxPool",  2),
    LayerGroupNew(104, 104, 32,  1,  52,  52, 32,  2, FALSE, "Leaky",  "MaxPool",  2),
    LayerGroupNew( 52,  52, 32,  2,  26,  26, 32,  4, FALSE, "Leaky",  "MaxPool",  2),
    LayerGroupNew( 26,  26, 32,  4,  26,  26, 32,  8, FALSE, "Leaky",  "None",     2),
    LayerGroupNew( 26,  26, 32,  1,  13,  13, 32,  8, TRUE,  "Linear", "MaxPool",  2),
    LayerGroupNew( 13,  13, 32,  8,  13,  13, 32, 16, FALSE, "Leaky",  "MaxPool",  1),
    LayerGroupNew( 13,  13, 32, 16,  13,  13, 32, 32, FALSE, "Leaky",  "None",     2),
    LayerGroupNew( 13,  13, 32, 32,  13,  13, 32,  8, FALSE, "Leaky",  "None",     2),
    LayerGroupNew( 13,  13, 32,  8,  13,  13, 32, 16, FALSE, "Leaky",  "None",     2),
    LayerGroupNew( 13,  13, 32, 16,  13,  13, 32,  8, FALSE, "Linear", "Yolo",     2),
    LayerGroupNew( 13,  13, 32,  8,  26,  26, 32,  4, FALSE, "Leaky",  "Upsample", 2),
    LayerGroupNew( 26,  26, 32, 12,  26,  26, 32,  8, FALSE, "Leaky",  "None",     2),
    LayerGroupNew( 26,  26, 32,  8,  26,  26, 32,  8, FALSE, "Linear", "Yolo",     2) >>

Stages == 0 .. 13

LG(k) == layer_groups[k + 1]

\* the configuration the files weights<k> and biases<k> and the image are made for
FileConfig(k) == layer_groups_init[k + 1]

\* Activation as u32
ActivationAsU32(a) == IF a = "Linear" THEN 0 ELSE 1

----------------------------------------------------------------------------
(* LayerGroup accessors.  A Result is [tag, msg, val]: tag "ok" carries val, *)
(* tag "err" carries the message, tag "panic" is a slice out of range.       *)

Ok(v) == [tag |-> "ok", msg |-> "", val |-> v]
Err(m) == [tag |-> "err", msg |-> m, val |-> <<>>]
Panic == [tag |-> "panic", msg |-> "slice index out of range", val |-> <<>>]

SliceOrPanic(b, beg, end) ==
    IF SliceInRange(b, beg, end) THEN Ok(Slice(b, beg, end)) ELSE Panic

weight_size(l) == 12 * l.input_ch * l.output_ch

\* get_weights with the input fold as the minor index
get_weights_iff_minor(l, w, o, i) ==
    IF IsSome(w)
    THEN LET data_beg == weight_size(l) * l.input_fold_factor * o + weight_size(l) * i
             data_end == data_beg + weight_size(l)
         IN SliceOrPanic(Unwrap(w), data_beg, data_end)
    ELSE Err("Weight is not set")

get_weights(l, w, o, i) ==
    IF IsSome(w)
    THEN LET data_beg == weight_size(l) * l.output_fold_factor * i + weight_size(l) * o
             data_end == data_beg + weight_size(l)
         IN SliceOrPanic(Unwrap(w), data_beg, data_end)
    ELSE Err("Weight is not set")

\* get_inputs slicing one input fold further on
get_inputs_next(l, inp, i) ==
    IF IsSome(inp)
    THEN SliceOrPanic(Unwrap(inp), l.input_size * (i + 1), l.input_size * (i + 2))
    ELSE Err("Input is not set")

get_inputs(l, inp, i) ==
    IF IsSome(inp)
    THEN LET data_beg == l.input_size * i
             data_end == data_beg + l.input_size
         IN SliceOrPanic(Unwrap(inp), data_beg, data_end)
    ELSE Err("Input is not set")

\* get_biases slicing without the match on the Option
get_biases_unchecked(l, b, o) ==
    SliceOrPanic(IF IsSome(b) THEN Unwrap(b) ELSE <<>>, l.output_ch * o, l.output_ch * o + l.output_ch)

get_biases(l, b, o) ==
    IF IsSome(b)
    THEN LET data_beg == l.output_ch * o
             data_end == data_beg + l.output_ch
         IN SliceOrPanic(Unwrap(b), data_beg, data_end)
    ELSE Err("Bias is not set")

\* set_outputs padding by the offset in the Some branch too
set_outputs_padded(l, out, o, output) ==
    Some(Extend(Extend(IF IsSome(out) THEN Unwrap(out) ELSE <<>>, ZeroVec(l.output_size * o)),
                output))

\* the new value of l.outputs
set_outputs(l, out, o, output) ==
    IF IsSome(out)
    THEN Some(Extend(Unwrap(out), output))
    ELSE IF o = 0
         THEN Some(output)
         ELSE Some(Extend(ZeroVec(l.output_size * o), output))

----------------------------------------------------------------------------
(* The register interface: every call is appended to log *)

Ev(op, unit, kind, i, j, data) ==
    [op |-> op, unit |-> unit, kind |-> kind, i |-> i, j |-> j, data |-> data]

SetEv(unit, kind, i, j) == Ev("set", unit, kind, i, j, <<>>)
StartEv(unit) == Ev("start", unit, "", 0, 0, <<>>)
WriteEv(unit, kind, i, j, data) == Ev("write", unit, kind, i, j, data)
ReadEv(unit, kind, n, data) == Ev("read", unit, kind, n, 0, data)
IdleEv(unit) == Ev("idle", unit, "", 0, 0, <<>>)
DoneEv(unit) == Ev("done", unit, "", 0, 0, <<>>)

ACTIVE_EN_LEN == 8

\* set_yolo_acc that enables the bias whatever bias_en is
set_yolo_acc_biased(l, bias_en) == SetEv("acc", "", ActivationAsU32(l.activate_type), 1)

\* set_yolo_acc: i is LEAKY, j is BIAS_EN
set_yolo_acc(l, bias_en) ==
    SetEv("acc", "", IF bias_en THEN ActivationAsU32(l.activate_type) ELSE ActivationAsU32("Linear"),
          IF bias_en THEN 1 ELSE 0)

set_yolo_conv(l) == SetEv("conv", "", l.input_ch, l.output_ch)

\* set_yolo_max_pool: i is the value added to the output size, j is STRIDE
set_yolo_max_pool(l, add_val) == SetEv("mp", "", add_val, l.pooling_stride)

\* set_yolo_yolo: i is the index into ACTIVE_EN
set_yolo_yolo(l, i) == SetEv("yolo", "", i, 0)

\* set_axis_switch: kind is the post-process type routed, i is conv_disable
set_axis_switch(conv_disable, post_process_type) ==
    SetEv("sw", post_process_type, IF conv_disable THEN 1 ELSE 0, 0)

\* start_all_ips leaving the upsample unit unstarted
start_all_ips_no_upsamp(l) ==
    (IF ~l.conv_disable THEN <<StartEv("conv"), StartEv("acc")>> ELSE <<>>)
    \o (IF l.post_process_type = "MaxPool" THEN <<StartEv("mp")>> ELSE <<>>)
    \o (IF l.post_process_type = "Yolo" THEN <<StartEv("yolo")>> ELSE <<>>)

start_all_ips(l) ==
    (IF ~l.conv_disable THEN <<StartEv("conv"), StartEv("acc")>> ELSE <<>>)
    \o (IF l.post_process_type = "MaxPool" THEN <<StartEv("mp")>> ELSE <<>>)
    \o (IF l.post_process_type = "Yolo" THEN <<StartEv("yolo")>> ELSE <<>>)
    \o (IF l.post_process_type = "Upsample" THEN <<StartEv("upsamp")>> ELSE <<>>)

\* the calls configure_all_ips(grp_idx, i) makes
configure_all_ips(l, i) ==
    (IF ~l.conv_disable THEN <<set_yolo_conv(l), set_yolo_acc(l, TRUE)>> ELSE <<>>)
    \o (IF l.post_process_type = "MaxPool"
        THEN <<set_yolo_max_pool(l, IF l.pooling_stride = 2 THEN 0 ELSE 1)>>
        ELSE <<>>)
    \o (IF l.post_process_type = "Yolo" THEN <<set_yolo_yolo(l, i)>> ELSE <<>>)
    \o <<set_axis_switch(l.conv_disable, l.post_process_type)>>
    \o start_all_ips(l)

\* the calls configure_conv_and_acc_ips(grp_idx) makes
configure_conv_and_acc_ips(l) ==
    <<set_yolo_conv(l), set_yolo_acc(l, FALSE), set_axis_switch(FALSE, "None"),
      StartEv("conv"), StartEv("acc")>>

\* wait_ips polling the accumulator whatever the post-process type
wait_ips_acc(l) == "acc"

\* the unit whose done flag wait_ips polls
wait_ips_unit(l) ==
    CASE l.post_process_type = "None" -> "acc"
      [] l.post_process_type = "MaxPool" -> "mp"
      [] l.post_process_type = "Yolo" -> "yolo"
      [] l.post_process_type = "Upsample" -> "upsamp"

----------------------------------------------------------------------------
(* Construction *)

\* the contents of the file weights<k>: one slice per (off, iff)
WeightsFile(k) ==
    Fresh("weights", k, 0, 0,
          weight_size(FileConfig(k)) * FileConfig(k).output_fold_factor * FileConfig(k).input_fold_factor)

\* the contents of the file biases<k>: one slice per off
BiasesFile(k) == Fresh("biases", k, 0, 0, FileConfig(k).output_ch * FileConfig(k).output_fold_factor)

\* the letterboxed image handed to start_processing
InputData == Fresh("image", 0, 0, 0, FileConfig(0).input_size)

\* read_weights and read_biases leave a buffer None when its file cannot be
\* opened: no file is missing, or the weights file, the biases file or both
\* files of one stage of AbsentStages
Init ==
    /\ layer_groups = layer_groups_init
    /\ \E missing \in {<<{}, 0>>} \cup ((SUBSET {"weights", "biases"} \ {{}}) \X AbsentStages) :
          /\ weights = [k \in Stages |->
                          IF missing[2] = k /\ "weights" \in missing[1]
                          THEN None ELSE Some(WeightsFile(k))]
          /\ biases = [k \in Stages |->
                          IF missing[2] = k /\ "biases" \in missing[1]
                          THEN None ELSE Some(BiasesFile(k))]
    /\ inputs = [k \in Stages |-> None]
    /\ outputs = [k \in Stages |-> None]
    /\ pc = "idle"
    /\ status = "init"
    /\ error = ""
    /\ grp_idx = 0
    /\ off = 0
    /\ iff = 0
    /\ polls = 0
    /\ acc_input_buff = <<>>
    /\ acc_output_buff = <<>>
    /\ log = <<>>
    /\ npass = 0
    /\ ran = <<>>
    /\ result = None
    /\ args = <<>>
    /\ ret = <<>>

----------------------------------------------------------------------------
(* Control flow of forward_layer_group *)

L == LG(grp_idx)

is_last_input_ch == iff = L.input_fold_factor - 1

\* Return with the error dropped by the caller: the loop of start_processing goes on
ReturnGoesOn(st, msg) ==
    /\ pc' = "rewire"
    /\ status' = st
    /\ error' = msg
    /\ UNCHANGED <<inputs, outputs, weights, biases, grp_idx, off, iff, polls,
                   acc_input_buff, acc_output_buff, npass, ran, result>>

\* `?` on an Err, or a panic: start_processing is left, nothing else changes
Return(st, msg) ==
    /\ pc' = "returned"
    /\ status' = st
    /\ error' = msg
    /\ UNCHANGED <<inputs, outputs, weights, biases, grp_idx, off, iff, polls,
                   acc_input_buff, acc_output_buff, npass, ran, result>>

Raise(r) == Return(IF r.tag = "panic" THEN "panic" ELSE "err", r.msg)

Goto(p) ==
    /\ pc' = p
    /\ UNCHANGED <<status, error, grp_idx, off, iff, polls, npass, ran, result>>

\* the entry of forward_layer_group(k): the first sub-pass, or none at all
EnterGroup(k) ==
    /\ grp_idx' = k
    /\ off' = 0
    /\ iff' = 0
    /\ npass' = 0
    /\ polls' = 0
    /\ log' = <<>>
    /\ IF LG(k).output_fold_factor > 0 /\ LG(k).input_fold_factor > 0
       THEN /\ pc' = "configure"
            /\ acc_input_buff' = ZeroVec(LG(k).acc_size)
            /\ acc_output_buff' = ZeroVec(LG(k).acc_size)
            /\ ran' = ran
       ELSE /\ pc' = "rewire"
            /\ ran' = Append(ran, k)
            /\ UNCHANGED <<acc_input_buff, acc_output_buff>>

\* FirstTransfer with the bias transfer forgotten
FirstTransferNoBias ==
    IF is_last_input_ch /\ ~L.conv_disable THEN "transfer_acc_input" ELSE "transfer_inputs"

\* the first transfer after the weights
FirstTransfer ==
    IF is_last_input_ch /\ ~L.conv_disable THEN "transfer_biases" ELSE "transfer_inputs"

\* EndSubPass without the swap of the accumulator buffers
EndSubPassNoSwap ==
    /\ polls' = 0
    /\ UNCHANGED <<status, error, grp_idx, npass, result>>
    /\ IF iff + 1 < L.input_fold_factor
       THEN /\ iff' = iff + 1
            /\ off' = off
            /\ UNCHANGED <<acc_input_buff, acc_output_buff>>
            /\ pc' = "configure"
            /\ ran' = ran
       ELSE IF off + 1 < L.output_fold_factor
            THEN /\ iff' = 0
                 /\ off' = off + 1
                 /\ acc_input_buff' = ZeroVec(L.acc_size)
                 /\ acc_output_buff' = ZeroVec(L.acc_size)
                 /\ pc' = "configure"
                 /\ ran' = ran
            ELSE /\ iff' = iff
                 /\ off' = off
                 /\ acc_input_buff' = <<>>
                 /\ acc_output_buff' = <<>>
                 /\ pc' = "rewire"
                 /\ ran' = Append(ran, grp_idx)

\* the end of a sub-pass: the ping-pong swap, then the next iff, the next off
\* or the return of forward_layer_group
EndSubPass ==
    /\ polls' = 0
    /\ UNCHANGED <<status, error, grp_idx, npass, result>>
    /\ IF iff + 1 < L.input_fold_factor
       THEN /\ iff' = iff + 1
            /\ off' = off
            /\ acc_input_buff' = acc_output_buff
            /\ acc_output_buff' = acc_input_buff
            /\ pc' = "configure"
            /\ ran' = ran
       ELSE IF off + 1 < L.output_fold_factor
            THEN /\ iff' = 0
                 /\ off' = off + 1
                 /\ acc_input_buff' = ZeroVec(L.acc_size)
                 /\ acc_output_buff' = ZeroVec(L.acc_size)
                 /\ pc' = "configure"
                 /\ ran' = ran
            ELSE /\ iff' = iff
                 /\ off' = off
                 /\ acc_input_buff' = <<>>
                 /\ acc_output_buff' = <<>>
                 /\ pc' = "rewire"
                 /\ ran' = Append(ran, grp_idx)

----------------------------------------------------------------------------
(* The steps of start_processing and forward_layer_group *)

\* start_processing, up to the first forward_layer_group
StartProcessing ==
    /\ UNCHANGED <<layer_groups, args, ret>>
    /\ pc = "idle"
    /\ status' = "running"
    /\ inputs' = [inputs EXCEPT ![0] = Some(InputData)]
    /\ EnterGroup(0)
    /\ UNCHANGED <<outputs, weights, biases, error, result>>

\* ConfigureAllIps indexing the table with the next output fold
ConfigureAllIpsNextFold ==
    /\ UNCHANGED <<layer_groups, args, ret>>
    /\ pc = "configure"
    /\ is_last_input_ch
    /\ IF L.post_process_type = "Yolo" /\ off + 1 >= ACTIVE_EN_LEN
       THEN /\ Return("panic", "index out of bounds")
            /\ log' = <<>>
       ELSE /\ log' = configure_all_ips(L, off + 1)
            /\ npass' = npass + 1
            /\ pc' = IF L.conv_disable THEN FirstTransfer ELSE "transfer_weights"
            /\ UNCHANGED <<inputs, outputs, weights, biases, status, error, grp_idx, off,
                           iff, polls, acc_input_buff, acc_output_buff, ran, result>>

\* configure_all_ips(grp_idx, off) in the last sub-pass of an output fold;
\* ACTIVE_EN[off] panics when off is not an index of the table
ConfigureAllIps ==
    /\ UNCHANGED <<layer_groups, args, ret>>
    /\ pc = "configure"
    /\ is_last_input_ch
    /\ IF L.post_process_type = "Yolo" /\ off >= ACTIVE_EN_LEN
       THEN /\ Return("panic", "index out of bounds")
            /\ log' = <<>>
       ELSE /\ log' = configure_all_ips(L, off)
            /\ npass' = npass + 1
            /\ pc' = IF L.conv_disable THEN FirstTransfer ELSE "transfer_weights"
            /\ UNCHANGED <<inputs, outputs, weights, biases, status, error, grp_idx, off,
                           iff, polls, acc_input_buff, acc_output_buff, ran, result>>

\* configure_conv_and_acc_ips(grp_idx) in every other sub-pass
ConfigureConvAndAccIps ==
    /\ UNCHANGED <<layer_groups, args, ret>>
    /\ pc = "configure"
    /\ ~is_last_input_ch
    /\ log' = configure_conv_and_acc_ips(L)
    /\ npass' = npass + 1
    /\ pc' = IF L.conv_disable THEN FirstTransfer ELSE "transfer_weights"
    /\ UNCHANGED <<inputs, outputs, weights, biases, status, error, grp_idx, off,
                   iff, polls, acc_input_buff, acc_output_buff, ran, result>>

\* one DMA write: the slice r is written on channel unit, or the call fails
DmaWrite(r, unit, kind, i, j, next) ==
    \E ok \in BOOLEAN :
        IF r.tag # "ok"
        THEN Raise(r) /\ log' = log
        ELSE IF ~ok
             THEN Return("err", "dma") /\ log' = log
             ELSE /\ log' = Append(log, WriteEv(unit, kind, i, j, r.val))
                  /\ Goto(next)

\* `while !dma.is_mm2s_idle()? {}`
DmaIdle(unit, next) ==
    \E r \in {"busy", "idle", "error"} :
        CASE r = "busy" ->
                /\ polls < MaxPolls
                /\ polls' = polls + 1
                /\ UNCHANGED <<pc, status, error, grp_idx, off, iff, npass, ran, result, log>>
          [] r = "idle" ->
                /\ log' = Append(log, IdleEv(unit))
                /\ pc' = next
                /\ polls' = 0
                /\ UNCHANGED <<status, error, grp_idx, off, iff, npass, ran, result>>
          [] r = "error" ->
                Return("err", "dma") /\ log' = log

\* transfer_weights without the wait for dma0
TransferWeightsNoWait ==
    /\ UNCHANGED <<layer_groups, args, ret>>
    /\ pc = "transfer_weights"
    /\ DmaWrite(get_weights(L, weights[grp_idx], off, iff), "dma0", "weights", off, iff,
                FirstTransfer)
    /\ UNCHANGED <<inputs, outputs, weights, biases, acc_input_buff, acc_output_buff>>

\* transfer_weights: get_weights and dma0.write
TransferWeights ==
    /\ UNCHANGED <<layer_groups, args, ret>>
    /\ pc = "transfer_weights"
    /\ DmaWrite(get_weights(L, weights[grp_idx], off, iff), "dma0", "weights", off, iff,
                "weights_idle")
    /\ UNCHANGED <<inputs, outputs, weights, biases, acc_input_buff, acc_output_buff>>

\* transfer_weights: the wait for dma0
WeightsIdle ==
    /\ UNCHANGED <<layer_groups, args, ret>>
    /\ pc = "weights_idle"
    /\ DmaIdle("dma0", FirstTransfer)
    /\ UNCHANGED <<inputs, outputs, weights, biases, acc_input_buff, acc_output_buff>>

\* transfer_biases: get_biases and dma1.write
TransferBiases ==
    /\ UNCHANGED <<layer_groups, args, ret>>
    /\ pc = "transfer_biases"
    /\ DmaWrite(get_biases(L, biases[grp_idx], off), "dma1", "biases", off, 0, "biases_idle")
    /\ UNCHANGED <<inputs, outputs, weights, biases, acc_input_buff, acc_output_buff>>

\* transfer_biases: the wait for dma1
BiasesIdle ==
    /\ UNCHANGED <<layer_groups, args, ret>>
    /\ pc = "biases_idle"
    /\ DmaIdle("dma1", "transfer_acc_input")
    /\ UNCHANGED <<inputs, outputs, weights, biases, acc_input_buff, acc_output_buff>>

\* transfer_acc_input: dma1.write(acc_input_buff)
TransferAccInput ==
    /\ UNCHANGED <<layer_groups, args, ret>>
    /\ pc = "transfer_acc_input"
    /\ DmaWrite(Ok(acc_input_buff), "dma1", "acc", off, iff,
                IF is_last_input_ch THEN "transfer_inputs" ELSE "transfer_acc_output")
    /\ UNCHANGED <<inputs, outputs, weights, biases, acc_input_buff, acc_output_buff>>

\* InputIdx with the input fold in every case
InputIdxIff == iff

\* the index transfer_inputs is called with
InputIdx == IF is_last_input_ch /\ L.conv_disable THEN off ELSE iff

\* transfer_inputs: get_inputs and dma0.write
TransferInputs ==
    /\ UNCHANGED <<layer_groups, args, ret>>
    /\ pc = "transfer_inputs"
    /\ DmaWrite(get_inputs(L, inputs[grp_idx], InputIdx), "dma0", "inputs", InputIdx, 0,
                IF is_last_input_ch THEN "transfer_output" ELSE "transfer_acc_input")
    /\ UNCHANGED <<inputs, outputs, weights, biases, acc_input_buff, acc_output_buff>>

\* transfer_acc_output: dma0.read(acc_size) into acc_output_buff
TransferAccOutput ==
    /\ UNCHANGED <<layer_groups, args, ret>>
    /\ pc = "transfer_acc_output"
    /\ \E ok \in BOOLEAN :
          IF ~ok
          THEN Return("err", "dma") /\ log' = log
          ELSE LET data == Fresh("acc_out", grp_idx, off, iff, L.acc_size)
               IN /\ acc_output_buff' = data
                  /\ log' = Append(log, ReadEv("dma0", "acc_out", L.acc_size, data))
                  /\ pc' = "wait_acc"
                  /\ UNCHANGED <<inputs, outputs, weights, biases, status, error, grp_idx,
                                 off, iff, polls, acc_input_buff, npass, ran, result>>

\* transfer_output and set_outputs(off, output)
TransferOutput ==
    /\ UNCHANGED <<layer_groups, args, ret>>
    /\ pc = "transfer_output"
    /\ \E ok \in BOOLEAN :
          IF ~ok
          THEN Return("err", "dma") /\ log' = log
          ELSE LET data == Fresh("output", grp_idx, off, 0, L.output_size)
               IN /\ outputs' = [outputs EXCEPT
                                   ![grp_idx] = set_outputs(L, outputs[grp_idx], off, data)]
                  /\ log' = Append(log, ReadEv("dma0", "output", L.output_size, data))
                  /\ pc' = "wait_ips"
                  /\ UNCHANGED <<inputs, weights, biases, status, error, grp_idx, off, iff,
                                 polls, acc_input_buff, acc_output_buff, npass, ran, result>>

\* `while !unit.is_done() {}`, then the rest of the loop body
WaitDone(unit) ==
    \E r \in {"busy", "done"} :
        CASE r = "busy" ->
                /\ polls < MaxPolls
                /\ polls' = polls + 1
                /\ UNCHANGED <<pc, status, error, grp_idx, off, iff, npass, ran, result, log,
                               acc_input_buff, acc_output_buff>>
          [] r = "done" ->
                /\ log' = Append(log, DoneEv(unit))
                /\ EndSubPass

\* wait_acc_ip at the end of transfer_subchannel_data
WaitAccIp ==
    /\ UNCHANGED <<layer_groups, args, ret>>
    /\ pc = "wait_acc"
    /\ WaitDone("acc")
    /\ UNCHANGED <<inputs, outputs, weights, biases>>

\* wait_ips at the end of transfer_last_channel_data
WaitIps ==
    /\ UNCHANGED <<layer_groups, args, ret>>
    /\ pc = "wait_ips"
    /\ WaitDone(wait_ips_unit(L))
    /\ UNCHANGED <<inputs, outputs, weights, biases>>

----------------------------------------------------------------------------------------------------------------------------------------
(* The topology: the rest of the loop body of start_processing *)

\* a take that leaves the buffer in the slot k
TakeLeaves(f, k) == f

\* .take() on the slot k
Take(f, k) == [f EXCEPT ![k] = None]

\* RewiredInputs with the branch of stage 10 lost: stage 11 reads stage 10
RewiredInputsChain(k) ==
    IF k # 13 THEN [inputs EXCEPT ![k + 1] = outputs[k]] ELSE inputs

\* the inputs after the if / else-if chain that follows forward_layer_group(k)
RewiredInputs(k) ==
    IF k = 4 \/ k = 8
    THEN [inputs EXCEPT ![k + 1] = outputs[k]]
    ELSE IF k = 10
         THEN [inputs EXCEPT ![11] = outputs[8]]
         ELSE IF k # 13
              THEN [inputs EXCEPT ![k + 1] = outputs[k]]
              ELSE inputs

\* RewiredOutputs with .take() where the code clones
RewiredOutputsTake(k) ==
    IF k = 10 THEN Take(outputs, 8) ELSE IF k # 13 THEN Take(outputs, k) ELSE outputs

\* the outputs after that chain: .clone() leaves the slot, .take() empties it
RewiredOutputs(k) ==
    IF k = 4 \/ k = 8
    THEN outputs
    ELSE IF k = 10
         THEN Take(outputs, 8)
         ELSE IF k # 13
              THEN Take(outputs, k)
              ELSE outputs

Rewire ==
    /\ UNCHANGED <<layer_groups, args, ret>>
    /\ pc = "rewire"
    /\ inputs' = RewiredInputs(grp_idx)
    /\ outputs' = RewiredOutputs(grp_idx)
    /\ IF grp_idx = 11
       THEN /\ pc' = "concat"
            /\ UNCHANGED <<grp_idx, off, iff, npass, polls, acc_input_buff,
                           acc_output_buff, ran, log>>
       ELSE IF grp_idx < 13
            THEN EnterGroup(grp_idx + 1)
            ELSE /\ pc' = "finish"
                 /\ UNCHANGED <<grp_idx, off, iff, npass, polls, acc_input_buff,
                                acc_output_buff, ran, log>>
    /\ UNCHANGED <<weights, biases, status, error, result>>

\* `if grp_idx == 11`, on the slots output4 = layer_groups[4].outputs and
\* inputs12 = layer_groups[12].inputs: the Result (val is the new inputs12) and
\* what is left in layer_groups[4].outputs
concat_result(output4, inputs12) ==
    IF IsNone(output4)
    THEN Err("layer_groups[4].outputs not set")
    ELSE IF IsNone(inputs12)
         THEN Err("layer_groups[12].inputs not set")
         ELSE Ok(Some(Extend(Unwrap(inputs12), Unwrap(output4))))

Concat ==
    /\ UNCHANGED <<layer_groups, args, ret>>
    /\ pc = "concat"
    /\ LET r == concat_result(outputs[4], inputs[12])
       IN /\ outputs' = Take(outputs, 4)
          /\ IF r.tag = "ok"
             THEN /\ inputs' = [inputs EXCEPT ![12] = r.val]
                  /\ EnterGroup(12)
                  /\ UNCHANGED <<status, error>>
             ELSE /\ pc' = "returned"
                  /\ status' = "err"
                  /\ error' = r.msg
                  /\ UNCHANGED <<inputs, grp_idx, off, iff, polls, acc_input_buff,
                                 acc_output_buff, npass, ran, log>>
    /\ UNCHANGED <<weights, biases, result>>

\* finish_result with the two results in the wrong order
finish_result_swapped(output10, output13) ==
    IF IsNone(output10)
    THEN Err("layer_groups[10].inputs not set")
    ELSE IF IsNone(output13)
         THEN Err("layer_groups[13].inputs not set")
         ELSE Ok(<<Unwrap(output13), Unwrap(output10)>>)

\* after the loop, on the slots of stages 10 and 13: the Result returned
finish_result(output10, output13) ==
    IF IsNone(output10)
    THEN Err("layer_groups[10].inputs not set")
    ELSE IF IsNone(output13)
         THEN Err("layer_groups[13].inputs not set")
         ELSE Ok(<<Unwrap(output10), Unwrap(output13)>>)

Finish ==
    /\ UNCHANGED <<layer_groups, args, ret>>
    /\ pc = "finish"
    /\ LET r == finish_result(outputs[10], outputs[13])
       IN /\ pc' = "returned"
          /\ status' = r.tag
          /\ error' = r.msg
          /\ result' = IF r.tag = "ok" THEN Some(r.val) ELSE None
          /\ outputs' = IF IsNone(outputs[10]) THEN outputs ELSE Take(Take(outputs, 10), 13)
    /\ UNCHANGED <<inputs, weights, biases, grp_idx, off, iff, polls, acc_input_buff,
                   acc_output_buff, npass, ran, log>>

Next ==
    \/ StartProcessing
    \/ ConfigureAllIps
    \/ ConfigureConvAndAccIps
    \/ TransferWeights
    \/ WeightsIdle
    \/ TransferBiases
    \/ BiasesIdle
    \/ TransferAccInput
    \/ TransferInputs
    \/ TransferAccOutput
    \/ TransferOutput
    \/ WaitAccIp
    \/ WaitIps
    \/ Rewire
    \/ Concat
    \/ Finish

Spec == Init /\ [][Next]_vars

----------------------------------------------------------------------------
(* LayerGroup used on its own: a caller of the public set_outputs, on       *)
(* LayerGroups as LayerGroup::new leaves them (every buffer None).  log     *)
(* holds the calls: i is the stage, j is off, data is the argument.         *)

InitLG ==
    /\ layer_groups = layer_groups_init
    /\ weights = [k \in Stages |-> None]
    /\ biases = [k \in Stages |-> None]
    /\ inputs = [k \in Stages |-> None]
    /\ outputs = [k \in Stages |-> None]
    /\ pc = "idle"
    /\ status = "init"
    /\ error = ""
    /\ grp_idx = 0
    /\ off = 0
    /\ iff = 0
    /\ polls = 0
    /\ acc_input_buff = <<>>
    /\ acc_output_buff = <<>>
    /\ log = <<>>
    /\ npass = 0
    /\ ran = <<>>
    /\ result = None
    /\ args = <<>>
    /\ ret = <<>>

\* layer_groups[k].set_outputs(o, output), output being output_size new elements
SetOutputsCall ==
    /\ UNCHANGED <<layer_groups, args, ret>>
    /\ Len(log) < MaxCalls
    /\ \E k \in DirectStages, o \in 0 .. MaxOff :
          LET output == Fresh("output", k, o, Len(log), LG(k).output_size)
          IN /\ outputs' = [outputs EXCEPT ![k] = set_outputs(LG(k), outputs[k], o, output)]
             /\ log' = Append(log, Ev("set_outputs", "", "", k, o, output))
    /\ UNCHANGED <<inputs, weights, biases, pc, status, error, grp_idx, off, iff, polls,
                   acc_input_buff, acc_output_buff, npass, ran, result>>

NextLG == SetOutputsCall

SpecLG == InitLG /\ [][NextLG]_vars

----------------------------------------------------------------------------
(* forward_layer_group called on its own: the public method, called by the  *)
(* owner of a controller that new has just built (no input buffer is set).  *)

\* forward_layer_group(k), up to the first sub-pass
ForwardLayerGroupCall ==
    /\ UNCHANGED <<layer_groups, args, ret>>
    /\ pc = "idle"
    /\ status' = "running"
    /\ \E k \in Stages : EnterGroup(k)
    /\ UNCHANGED <<inputs, outputs, weights, biases, error, result>>

NextFwd ==
    \/ ForwardLayerGroupCall
    \/ ConfigureAllIps
    \/ ConfigureConvAndAccIps
    \/ TransferWeights
    \/ WeightsIdle
    \/ TransferBiases
    \/ BiasesIdle
    \/ TransferAccInput
    \/ TransferInputs

SpecFwd == Init /\ [][NextFwd]_vars

----------------------------------------------------------------------------
(* The life of one controller, from the call of new to its drop.  Here pc   *)
(* is the position of the owner, npass counts the fallible steps of new     *)
(* that have succeeded, log holds every start and stop call made on the two *)
(* DMA engines, and ran holds the outcome of each call of start_processing. *)

\* the steps of new that return with `?`, in order, before the engines start
NewSteps ==
    << "hwinfo::read",
       "match_hw axis_switch_0", "match_hw axis_switch_1", "match_hw axis_switch_2",
       "match_hw axi_dma_0", "match_hw axi_dma_1",
       "match_hw yolo_acc_top_0", "match_hw yolo_conv_top_0", "match_hw yolo_max_pool_top_0",
       "match_hw yolo_yolo_top_0", "match_hw yolo_upsamp_top_0",
       "AxisSwitch::new sw0", "AxisSwitch::new sw1", "AxisSwitch::new sw2",
       "AxiDma::new dma0", "AxiDma::new dma1",
       "Yolo::new yolo_acc", "Yolo::new yolo_conv", "Yolo::new yolo_mp",
       "Yolo::new yolo_yolo", "Yolo::new yolo_upsamp" >>

StopEv(unit) == Ev("stop", unit, "", 0, 0, <<>>)

\* stop_dmas that forgets the second engine
stop_dmas_one == <<StopEv("dma0")>>

\* the calls stop_dmas makes
stop_dmas == <<StopEv("dma0"), StopEv("dma1")>>

InitLife ==
    /\ layer_groups = <<>>
    /\ weights = [k \in Stages |-> None]
    /\ biases = [k \in Stages |-> None]
    /\ inputs = [k \in Stages |-> None]
    /\ outputs = [k \in Stages |-> None]
    /\ pc = "new"
    /\ status = "init"
    /\ error = ""
    /\ grp_idx = 0
    /\ off = 0
    /\ iff = 0
    /\ polls = 0
    /\ acc_input_buff = <<>>
    /\ acc_output_buff = <<>>
    /\ log = <<>>
    /\ npass = 0
    /\ ran = <<>>
    /\ result = None
    /\ args = <<>>
    /\ ret = <<>>

\* one fallible step of new: it succeeds, or new returns its error
NewStep ==
    /\ UNCHANGED <<layer_groups, args, ret>>
    /\ pc = "new"
    /\ npass < Len(NewSteps)
    /\ \E ok \in BOOLEAN :
          IF ok
          THEN /\ npass' = npass + 1
               /\ UNCHANGED <<pc, status, error>>
          ELSE /\ pc' = "returned"
               /\ status' = "err"
               /\ error' = NewSteps[npass + 1]
               /\ npass' = npass
    /\ UNCHANGED <<inputs, outputs, weights, biases, grp_idx, off, iff, polls,
                   acc_input_buff, acc_output_buff, log, ran, result>>

\* dma0.start(); dma1.start(); and the controller is built
StartDmas ==
    /\ UNCHANGED <<layer_groups, args, ret>>
    /\ pc = "new"
    /\ npass = Len(NewSteps)
    /\ log' = log \o <<StartEv("dma0"), StartEv("dma1")>>
    /\ pc' = "init"
    /\ UNCHANGED <<inputs, outputs, weights, biases, status, error, grp_idx, off, iff, polls,
                   acc_input_buff, acc_output_buff, npass, ran, result>>

\* s.init(weights_dir, biases_dir): the files found are loaded, or an unwrap
\* of read_weights or read_biases panics and the controller is unwound
InitCall ==
    /\ layer_groups' = layer_groups \o layer_groups_init
    /\ UNCHANGED <<args, ret>>
    /\ pc = "init"
    /\ \E panics \in BOOLEAN, missing \in {<<{}, 0>>} \cup ((SUBSET {"weights", "biases"} \ {{}}) \X AbsentStages) :
          IF panics
          THEN /\ pc' = "unwinding"
               /\ status' = "panic"
               /\ UNCHANGED <<weights, biases>>
          ELSE /\ pc' = "idle"
               /\ status' = status
               /\ weights' = [k \in Stages |->
                                 IF missing[2] = k /\ "weights" \in missing[1]
                                 THEN None ELSE Some(WeightsFile(k))]
               /\ biases' = [k \in Stages |->
                                IF missing[2] = k /\ "biases" \in missing[1]
                                THEN None ELSE Some(BiasesFile(k))]
    /\ UNCHANGED <<inputs, outputs, error, grp_idx, off, iff, polls,
                   acc_input_buff, acc_output_buff, log, npass, ran, result>>

\* one call of start_processing, by its outcome: it makes no start or stop
\* call on a DMA engine; a panic unwinds the owner of the controller
StartProcessingCall ==
    /\ UNCHANGED <<layer_groups, args, ret>>
    /\ pc = "idle"
    /\ Len(ran) < MaxPasses
    /\ \E outcome \in {"ok", "err", "panic"} :
          /\ ran' = Append(ran, outcome)
          /\ status' = outcome
          /\ pc' = IF outcome = "panic" THEN "unwinding" ELSE "idle"
    /\ UNCHANGED <<inputs, outputs, weights, biases, error, grp_idx, off, iff, polls,
                   acc_input_buff, acc_output_buff, log, npass, result>>

\* the owner calls the public stop_dmas
StopDmasCall ==
    /\ UNCHANGED <<layer_groups, args, ret>>
    /\ pc = "idle"
    /\ Len(SelectSeq(log, LAMBDA e : e.op = "stop")) < 2 * MaxStops
    /\ log' = log \o stop_dmas
    /\ UNCHANGED <<inputs, outputs, weights, biases, pc, status, error, grp_idx, off, iff,
                   polls, acc_input_buff, acc_output_buff, npass, ran, result>>

\* Drop for YoloV3Tiny: the owner lets the controller go, or is unwound
Drop ==
    /\ UNCHANGED <<layer_groups, args, ret>>
    /\ pc \in {"idle", "unwinding"}
    /\ log' = log \o stop_dmas
    /\ pc' = "dropped"
    /\ UNCHANGED <<inputs, outputs, weights, biases, status, error, grp_idx, off, iff,
                   polls, acc_input_buff, acc_output_buff, npass, ran, result>>

NextLife ==
    \/ NewStep
    \/ StartDmas
    \/ InitCall
    \/ StartProcessingCall
    \/ StopDmasCall
    \/ Drop

SpecLife == InitLife /\ [][NextLife]_vars

----------------------------------------------------------------------------
(* Non-maximum suppression (nms.rs, and the older copy in utils.rs).  A     *)
(* DetectionData is a record; its f32 fields hold small integers here       *)
(* (confidence in tenths), on which the f32 subtractions and products are   *)
(* exact; a quotient is kept as <<numerator, denominator>> and compared by  *)
(* cross-multiplication, which orders as the rounded f32 quotients do at    *)
(* these magnitudes.                                                        *)

\* the controller is not in use while a post-processing function is called
ControllerUnused ==
    /\ layer_groups = layer_groups_init
    /\ weights = [k \in Stages |-> None]
    /\ biases = [k \in Stages |-> None]
    /\ inputs = [k \in Stages |-> None]
    /\ outputs = [k \in Stages |-> None]
    /\ status = "init"
    /\ error = ""
    /\ grp_idx = 0
    /\ off = 0
    /\ iff = 0
    /\ polls = 0
    /\ acc_input_buff = <<>>
    /\ acc_output_buff = <<>>
    /\ log = <<>>
    /\ npass = 0
    /\ ran = <<>>
    /\ result = None

ctl == <<layer_groups, inputs, outputs, weights, biases, status, error, grp_idx, off, iff,
         polls, acc_input_buff, acc_output_buff, log, npass, ran, result>>

\* 1.0, in the unit confidences are counted in
ConfOne == 10

DetectionData(class, corners, confidence) ==
    [class |-> class, x1 |-> corners[1], y1 |-> corners[2], x2 |-> corners[3],
     y2 |-> corners[4], confidence |-> confidence]

\* q > t for quotients with positive denominators
Gt(q, t) == q[1] * t[2] > t[1] * q[2]

\* iou taking the smaller of the two left edges for the intersection
iou_left_edge(a, b) ==
    LET x1 == IF a.x1 < b.x1 THEN a.x1 ELSE b.x1
        x2 == IF a.x1 < b.x1 THEN a.x1 ELSE b.x1
        y1 == IF a.y1 < b.y1 THEN b.y1 ELSE a.y1
        y2 == IF a.y1 < b.y1 THEN a.y1 ELSE b.y1
        xx1 == IF b.x2 < a.x2 THEN b.x2 ELSE a.x2
        xx2 == IF b.x2 < a.x2 THEN a.x2 ELSE b.x2
        yy1 == IF b.y2 < a.y2 THEN b.y2 ELSE a.y2
        yy2 == IF b.y2 < a.y2 THEN a.y2 ELSE b.y2
    IN IF x1 >= xx1 \/ y1 >= yy1
       THEN <<0, 1>>
       ELSE <<(xx1 - x1) * (yy1 - y1), (xx2 - x2) * (yy2 - y2)>>

\* nms::iou
iou(a, b) ==
    LET x1 == IF a.x1 < b.x1 THEN b.x1 ELSE a.x1
        x2 == IF a.x1 < b.x1 THEN a.x1 ELSE b.x1
        y1 == IF a.y1 < b.y1 THEN b.y1 ELSE a.y1
        y2 == IF a.y1 < b.y1 THEN a.y1 ELSE b.y1
        xx1 == IF b.x2 < a.x2 THEN b.x2 ELSE a.x2
        xx2 == IF b.x2 < a.x2 THEN a.x2 ELSE b.x2
        yy1 == IF b.y2 < a.y2 THEN b.y2 ELSE a.y2
        yy2 == IF b.y2 < a.y2 THEN a.y2 ELSE b.y2
    IN IF x1 >= xx1 \/ y1 >= yy1
       THEN <<0, 1>>
       ELSE <<(xx1 - x1) * (yy1 - y1), (xx2 - x2) * (yy2 - y2)>>

\* utils::iou
utils_iou(a, b) ==
    LET x1 == IF b.x1 > a.x1 THEN b.x1 ELSE a.x1
        x2 == IF b.x1 > a.x1 THEN a.x1 ELSE b.x1
        y1 == IF b.y1 > a.y1 THEN b.y1 ELSE a.y1
        y2 == IF b.y1 > a.y1 THEN a.y1 ELSE b.y1
        xx1 == IF b.x2 < a.x2 THEN b.x2 ELSE a.x2
        xx2 == IF b.x2 < a.x2 THEN a.x2 ELSE b.x2
        yy1 == IF b.y2 < a.y2 THEN b.y2 ELSE a.y2
        yy2 == IF b.y2 < a.y2 THEN a.y2 ELSE b.y2
    IN IF x1 >= xx1 \/ y1 >= yy1
       THEN <<0, 1>>
       ELSE <<(xx1 - x1) * (yy1 - y1), (xx2 - x2) * (yy2 - y2)>>

\* the place a stable sort gives x in the sorted s: before the first element
\* that x strictly precedes
RECURSIVE StableInsert(_, _, _)
StableInsert(s, x, descending) ==
    IF s = <<>> THEN <<x>>
    ELSE IF (IF descending THEN x.confidence > Head(s).confidence
                           ELSE x.confidence < Head(s).confidence)
         THEN <<x>> \o s
         ELSE <<Head(s)>> \o StableInsert(Tail(s), x, descending)

\* sort_by on the confidence (slice::sort_by is stable)
RECURSIVE SortByConfidence(_, _)
SortByConfidence(bb, descending) ==
    IF bb = <<>> THEN <<>>
    ELSE StableInsert(SortByConfidence(SubSeq(bb, 1, Len(bb) - 1), descending),
                      bb[Len(bb)], descending)

\* Vec::pop
Pop(s) == SubSeq(s, 1, Len(s) - 1)

\* Vec::remove(it), it counted from 0
Remove(s, it) == SubSeq(s, 1, it) \o SubSeq(s, it + 2, Len(s))

\* nms::nms, `for it in ((ib + 1)..sorted_bb.len()).rev()`: it counts down from
\* the length the list had when the loop began
RECURSIVE nms_inner(_, _, _, _)
nms_inner(sorted_bb, ib, it, nms_threshold) ==
    IF it <= ib THEN sorted_bb
    ELSE nms_inner(IF Gt(iou(sorted_bb[ib + 1], sorted_bb[it + 1]), nms_threshold)
                   THEN Pop(sorted_bb) ELSE sorted_bb,
                   ib, it - 1, nms_threshold)

\* nms::nms, `for ib in 0..sorted_bb.len()` with its break
RECURSIVE nms_outer(_, _, _, _)
nms_outer(sorted_bb, ib, n, nms_threshold) ==
    IF ib >= n THEN sorted_bb
    ELSE LET t == nms_inner(sorted_bb, ib, Len(sorted_bb) - 1, nms_threshold)
         IN IF Len(t) = ib + 1 THEN t ELSE nms_outer(t, ib + 1, n, nms_threshold)

nms(bb, nms_threshold) ==
    LET sorted_bb == SortByConfidence(bb, TRUE)
    IN nms_outer(sorted_bb, 0, Len(sorted_bb), nms_threshold)

\* utils::nms, the while loop
RECURSIVE utils_nms_inner(_, _, _, _)
utils_nms_inner(sorted_bb, ib, it, nms_threshold) ==
    IF it >= Len(sorted_bb) THEN sorted_bb
    ELSE IF Gt(utils_iou(sorted_bb[ib + 1], sorted_bb[it + 1]), nms_threshold)
         THEN utils_nms_inner(Remove(sorted_bb, it), ib, it, nms_threshold)
         ELSE utils_nms_inner(sorted_bb, ib, it + 1, nms_threshold)

RECURSIVE utils_nms_outer(_, _, _, _)
utils_nms_outer(sorted_bb, ib, n, nms_threshold) ==
    IF ib >= n THEN sorted_bb
    ELSE utils_nms_outer(utils_nms_inner(sorted_bb, ib, ib + 1, nms_threshold),
                         ib + 1, n, nms_threshold)

utils_nms(bb, nms_threshold) ==
    LET sorted_bb == SortByConfidence(bb, FALSE)
    IN utils_nms_outer(sorted_bb, 0, Len(sorted_bb), nms_threshold)

\* the filter letting a confidence equal to obj_threshold through
PassesFilterAtThreshold(d, obj_threshold) == d.confidence >= obj_threshold /\ d.confidence <= ConfOne

\* the confidence filter of nms_process
PassesFilter(d, obj_threshold) == d.confidence > obj_threshold /\ d.confidence <= ConfOne

\* cls[c] of nms_process: the boxes of class c that pass the filter, in input order
ClassList(bb, c, obj_threshold) ==
    SelectSeq(bb, LAMBDA d : d.class = c /\ PassesFilter(d, obj_threshold))

\* the survivors of the classes c .. cls_num - 1, one class after the other
RECURSIVE nms_flatten(_, _, _, _, _)
nms_flatten(bb, c, cls_num, obj_threshold, nms_threshold) ==
    IF c >= cls_num THEN <<>>
    ELSE nms(ClassList(bb, c, obj_threshold), nms_threshold)
         \o nms_flatten(bb, c + 1, cls_num, obj_threshold, nms_threshold)

\* nms::nms_process
nms_process(bb, cls_num, obj_threshold, nms_threshold) ==
    nms_flatten(bb, 0, cls_num, obj_threshold, nms_threshold)

RECURSIVE utils_nms_flatten(_, _, _, _, _)
utils_nms_flatten(bb, c, cls_num, obj_threshold, nms_threshold) ==
    IF c >= cls_num THEN <<>>
    ELSE utils_nms(ClassList(bb, c, obj_threshold), nms_threshold)
         \o utils_nms_flatten(bb, c + 1, cls_num, obj_threshold, nms_threshold)

\* utils::nms_process
utils_nms_process(bb, cls_num, obj_threshold, nms_threshold) ==
    utils_nms_flatten(bb, 0, cls_num, obj_threshold, nms_threshold)

\* the lists of at most n boxes
RECURSIVE BoxLists(_)
BoxLists(n) ==
    IF n = 0 THEN {<<>>}
    ELSE LET shorter == BoxLists(n - 1)
         IN shorter \cup
            {Append(l, DetectionData(c, xy, conf)) :
                l \in {m \in shorter : Len(m) = n - 1},
                c \in BoxClasses, xy \in BoxCorners, conf \in BoxConfidences}

\* a caller is about to hand bb to nms_process
InitNms ==
    /\ ControllerUnused
    /\ pc = "call"
    /\ ret = <<>>
    /\ \E bb \in BoxLists(MaxBoxes), ot \in ObjThresholds, nt \in NmsThresholds :
          args = [bb |-> bb, cls_num |-> Cardinality(BoxClasses), obj_threshold |-> ot,
                  nms_threshold |-> nt]

\* nms::nms_process(bb, ..)
NmsProcessCall ==
    /\ pc = "call"
    /\ ret' = [fn |-> "nms", out |-> nms_process(args.bb, args.cls_num, args.obj_threshold,
                                                 args.nms_threshold)]
    /\ pc' = "returned"
    /\ UNCHANGED <<ctl, args>>

\* utils::nms_process(bb, ..)
UtilsNmsProcessCall ==
    /\ pc = "call"
    /\ ret' = [fn |-> "utils", out |-> utils_nms_process(args.bb, args.cls_num,
                                                         args.obj_threshold, args.nms_threshold)]
    /\ pc' = "returned"
    /\ UNCHANGED <<ctl, args>>

\* the function called once more, on what it returned
NmsProcessAgain ==
    /\ pc = "returned"
    /\ ret' = [fn |-> ret.fn,
               out |-> IF ret.fn = "nms"
                       THEN nms_process(ret.out, args.cls_num, args.obj_threshold,
                                        args.nms_threshold)
                       ELSE utils_nms_process(ret.out, args.cls_num, args.obj_threshold,
                                              args.nms_threshold)]
    /\ args' = [args EXCEPT !.bb = ret.out]
    /\ pc' = "returned again"
    /\ UNCHANGED ctl

NextNms ==
    \/ NmsProcessCall
    \/ UtilsNmsProcessCall
    \/ NmsProcessAgain

SpecNms == InitNms /\ [][NextNms]_vars

----------------------------------------------------------------------------
(* iou called on its own *)

\* the boxes with corners in 0 .. MaxCoord, x1 <= x2 and y1 <= y2
GridBoxes ==
    {d \in [class : {0}, x1 : 0 .. MaxCoord, y1 : 0 .. MaxCoord, x2 : 0 .. MaxCoord,
            y2 : 0 .. MaxCoord, confidence : {ConfOne}] : d.x1 <= d.x2 /\ d.y1 <= d.y2}

InitIou ==
    /\ ControllerUnused
    /\ pc = "call"
    /\ ret = <<>>
    /\ \E a \in GridBoxes, b \in GridBoxes : args = [a |-> a, b |-> b]

\* nms::iou(a, b)
IouCall ==
    /\ pc = "call"
    /\ ret' = [fn |-> "nms", out |-> iou(args.a, args.b)]
    /\ pc' = "returned"
    /\ UNCHANGED <<ctl, args>>

\* utils::iou(a, b)
UtilsIouCall ==
    /\ pc = "call"
    /\ ret' = [fn |-> "utils", out |-> utils_iou(args.a, args.b)]
    /\ pc' = "returned"
    /\ UNCHANGED <<ctl, args>>

NextIou ==
    \/ IouCall
    \/ UtilsIouCall

SpecIou == InitIou /\ [][NextIou]_vars

----------------------------------------------------------------------------
(* The class id of an anchor slot (postprocess::get_cls_id, and the loop of *)
(* utils::post_process).  A score is the raw Q8.8 value: fix2float is       *)
(* increasing, so the scores compare as the raw values do.                  *)

\* Iterator::max_by over lo .. hi - 1 on the scores: the last of the maxima
RECURSIVE max_by(_, _, _, _)
max_by(cls_concat, best, a, hi) ==
    IF a >= hi THEN best
    ELSE max_by(cls_concat, IF cls_concat[best + 1] > cls_concat[a + 1] THEN best ELSE a,
                a + 1, hi)

\* get_cls_id keeping the first of the maxima
get_cls_id_first(cls_concat, idx, cls_num) ==
    LET ccnt == idx * cls_num
    IN (CHOOSE a \in ccnt .. ccnt + cls_num - 1 :
           /\ \A b \in ccnt .. ccnt + cls_num - 1 : cls_concat[a + 1] >= cls_concat[b + 1]
           /\ \A b \in ccnt .. a - 1 : cls_concat[b + 1] < cls_concat[a + 1]) - ccnt

\* postprocess::get_cls_id
get_cls_id(cls_concat, idx, cls_num) ==
    LET ccnt == idx * cls_num
    IN max_by(cls_concat, ccnt, ccnt + 1, ccnt + cls_num) - ccnt

\* utils::post_process, `for j in 0..cls_num`: <<max_class_score, max_class_id>>,
\* the scores in raw Q8.8 (-1.0 is -256, 1.0 is 256)
RECURSIVE utils_max_class(_, _, _, _, _)
utils_max_class(class, cnt_cls, j, cls_num, max) ==
    IF j >= cls_num THEN max
    ELSE LET t == class[cnt_cls + j + 1]
         IN utils_max_class(class, cnt_cls, j + 1, cls_num,
                            IF max[1] < t /\ 0 <= t /\ t <= 256 THEN <<t, j>> ELSE max)

\* utils::post_process: max_class_id of the slot whose scores begin at cnt_cls
utils_max_class_id(class, cnt_cls, cls_num) ==
    utils_max_class(class, cnt_cls, 0, cls_num, <<-256, -1>>)[2]

\* the class-score arrays of n slots
RECURSIVE ScoreArrays(_)
ScoreArrays(n) ==
    IF n = 0 THEN {<<>>}
    ELSE {Append(l, v) : l \in ScoreArrays(n - 1), v \in ScoreValues}

InitCls ==
    /\ ControllerUnused
    /\ pc = "call"
    /\ ret = <<>>
    /\ \E cls_concat \in ScoreArrays(ClsNum * Cardinality(SlotIndexes)), idx \in SlotIndexes :
          args = [cls_concat |-> cls_concat, idx |-> idx, cls_num |-> ClsNum]

\* get_cls_id(cls_concat, idx, cls_num)
GetClsIdCall ==
    /\ pc = "call"
    /\ ret' = [fn |-> "postprocess", out |-> get_cls_id(args.cls_concat, args.idx, args.cls_num)]
    /\ pc' = "returned"
    /\ UNCHANGED <<ctl, args>>

\* the class loop of utils::post_process on the slot idx, cnt_cls being idx * cls_num
UtilsMaxClassCall ==
    /\ pc = "call"
    /\ ret' = [fn |-> "utils",
               out |-> utils_max_class_id(args.cls_concat, args.idx * args.cls_num, args.cls_num)]
    /\ pc' = "returned"
    /\ UNCHANGED <<ctl, args>>

NextCls ==
    \/ GetClsIdCall
    \/ UtilsMaxClassCall

SpecCls == InitCls /\ [][NextCls]_vars

----------------------------------------------------------------------------
(* What the claims speak of *)

\* forward_layer_group(grp_idx) is running
InStage ==
    pc \in {"configure", "transfer_weights", "weights_idle", "transfer_biases",
            "biases_idle", "transfer_acc_input", "transfer_inputs",
            "transfer_acc_output", "transfer_output", "wait_acc", "wait_ips"}

\* the data the first n reads of transfer_output returned in stage k
RECURSIVE OutputReads(_, _)
OutputReads(k, n) ==
    IF n = 0 THEN <<>>
    ELSE OutputReads(k, n - 1) \o Fresh("output", k, n - 1, 0, LG(k).output_size)

\* the whole output of stage k: one read per output fold, in fold order
StageOutput(k) == OutputReads(k, LG(k).output_fold_factor)

\* the buffer stage k is to read, by the edges of the topology
WiredInput(k) ==
    CASE k = 0 -> InputData
      [] k = 11 -> StageOutput(8)
      [] k = 12 -> StageOutput(11) \o StageOutput(4)
      [] OTHER -> StageOutput(k - 1)

----------------------------------------------------------------------------
(* C1: start_processing runs the stages in the order 0..13, each once; while *)
(* stage k runs its input is the output of stage k-1, except that stage 11   *)
(* reads the output of stage 8 and stage 12 reads the output of stage 11     *)
(* followed by the output of stage 4; the concatenation is made after stage  *)
(* 11 has run, on an input that holds the output of stage 11 alone, and      *)
(* before stage 12 runs.                                                     *)
C1_StageOrderAndWiring ==
    /\ \A n \in 1 .. Len(ran) : ran[n] = n - 1
    /\ InStage => Len(ran) = grp_idx
    /\ pc \in {"rewire", "concat", "finish"} => Len(ran) = grp_idx + 1
    /\ status = "ok" => Len(ran) = 14
    /\ InStage => inputs[grp_idx] = Some(WiredInput(grp_idx))
    /\ pc = "concat" =>
          /\ grp_idx = 11
          /\ inputs[12] = Some(StageOutput(11))
          /\ outputs[4] = Some(StageOutput(4))

C1_Witness ==
    /\ status = "ok"
    /\ ran = <<0, 1, 2, 3, 4, 5, 6, 7, 8, 9, 10, 11, 12, 13>>
    /\ inputs[12] = Some(StageOutput(11) \o StageOutput(4))
    /\ inputs[11] = Some(StageOutput(8))

----------------------------------------------------------------------------
\* the stages whose output has one consumer, the next stage
MovedStages == {0, 1, 2, 3, 5, 6, 7, 9, 11, 12}

\* the if / else-if chain after forward_layer_group(k) has been executed
Rewired(k) == grp_idx > k \/ (grp_idx = k /\ pc = "concat")

(* C2: once the output of a stage other than 4, 8, 10 and 13 has been wired, *)
(* its slot is empty and the input of the next stage holds the buffer; the   *)
(* outputs of stages 4 and 8 are cloned: the slot keeps a buffer equal to    *)
(* the input of the next stage, unchanged, until it is moved (stage 8: into  *)
(* the input of stage 11, after stage 10; stage 4: onto the input of stage   *)
(* 12, after stage 11).  No stage ever holds more than one output buffer.    *)
C2_BufferOwnership ==
    /\ \A k \in Stages : Len(outputs[k]) <= 1
    /\ \A k \in MovedStages : Rewired(k) =>
          /\ outputs[k] = None
          /\ (grp_idx <= k + 1 /\ ~(k = 11 /\ grp_idx = 12)) =>
                inputs[k + 1] = Some(StageOutput(k))
    /\ (grp_idx > 4 /\ grp_idx <= 11) =>
          /\ outputs[4] = Some(StageOutput(4))
          /\ inputs[5] = outputs[4]
    /\ grp_idx >= 12 =>
          /\ outputs[4] = None
          /\ inputs[12] = Some(StageOutput(11) \o StageOutput(4))
    /\ grp_idx \in {9, 10} =>
          /\ outputs[8] = Some(StageOutput(8))
          /\ inputs[9] = outputs[8]
    /\ grp_idx >= 11 =>
          /\ outputs[8] = None
          /\ inputs[11] = Some(StageOutput(8))

C2_Witness ==
    /\ pc = "concat"
    /\ IsSome(outputs[4])
    /\ inputs[5] = outputs[4]
    /\ IsNone(outputs[8])
    /\ IsNone(outputs[11])
    /\ IsSome(inputs[12])

----------------------------------------------------------------------------
\* the total number of elements stage k produces
TotalOutput(k) == LG(k).output_size * LG(k).output_fold_factor

(* C3 as claimed: after a successful start_processing the length of the     *)
(* input of stage 12 is stage11.output_size + stage4.output_size.           *)
C3_AsClaimed ==
    status = "ok" =>
        /\ IsSome(inputs[12])
        /\ BufLen(Unwrap(inputs[12])) = LG(11).output_size + LG(4).output_size

(* C3 amended: after a successful start_processing the length of the input  *)
(* of stage 12 is the total length of the outputs of stages 11 and 4, each  *)
(* output_size * output_fold_factor.                                        *)
C3_ConcatLength ==
    status = "ok" =>
        /\ IsSome(inputs[12])
        /\ BufLen(Unwrap(inputs[12])) = TotalOutput(11) + TotalOutput(4)

C3_Witness ==
    /\ status = "ok"
    /\ IsSome(inputs[12])
    /\ BufLen(Unwrap(inputs[12])) = 12 * LG(4).output_size

----------------------------------------------------------------------------
AllLoaded == \A k \in Stages : IsSome(weights[k]) /\ IsSome(biases[k])

\* the slots the error branches of start_processing are tried on
SlotSamples == {None, Some(<<>>), Some(StageOutput(4)), Some(StageOutput(13))}

(* C4: start_processing returns (output of stage 10, output of stage 13)    *)
(* and, with every buffer loaded, fails only when a DMA operation failed;   *)
(* the buffer of stage 10 stays as stage 10 left it while stages 11 to 13   *)
(* run; an absent slot (output of stage 4, 10 or 13, input of stage 12)     *)
(* where it is needed gives an error and no result.                         *)
C4_Result ==
    /\ status = "ok" => result = Some(<<StageOutput(10), StageOutput(13)>>)
    /\ status # "ok" => result = None
    /\ (pc = "returned" /\ AllLoaded /\ error # "dma") => status = "ok"
    /\ (status = "running" /\ grp_idx >= 11) => outputs[10] = Some(StageOutput(10))
    /\ \A a \in SlotSamples, b \in SlotSamples :
          /\ (IsNone(a) \/ IsNone(b)) <=> concat_result(a, b).tag = "err"
          /\ (IsNone(a) \/ IsNone(b)) <=> finish_result(a, b).tag = "err"
          /\ finish_result(a, b).tag \in {"ok", "err"}

C4_Witness ==
    /\ status = "ok"
    /\ AllLoaded
    /\ IsSome(result)
    /\ BufLen(result[1][1]) = TotalOutput(10)
    /\ BufLen(result[1][2]) = TotalOutput(13)

----------------------------------------------------------------------------
\* the units on which log holds a call op
UnitsWith(op) == {log[n].unit : n \in {m \in 1 .. Len(log) : log[m].op = op}}

\* the set_yolo_acc call of the current sub-pass: <<LEAKY, BIAS_EN>>
AccRegs == {<<log[n].i, log[n].j>> : n \in {m \in 1 .. Len(log) : log[m].op = "set" /\ log[m].unit = "acc"}}

\* the stream-switch routing of the current sub-pass: <<post-process type, conv_disable>>
SwitchRoute == {<<log[n].kind, log[n].i>> : n \in {m \in 1 .. Len(log) : log[m].op = "set" /\ log[m].unit = "sw"}}

\* a sub-pass has been configured and is not over
InSubPass == InStage /\ pc # "configure"

\* the post-process unit of a stage, if any
PostProcessUnits(l) ==
    CASE l.post_process_type = "MaxPool" -> {"mp"}
      [] l.post_process_type = "Yolo" -> {"yolo"}
      [] l.post_process_type = "Upsample" -> {"upsamp"}
      [] OTHER -> {}

\* every set and start of the sub-pass precedes its first DMA transfer
ConfiguredFirst ==
    \A n \in 1 .. Len(log) : log[n].op \in {"set", "start"} =>
        \A m \in 1 .. n : log[m].op \in {"set", "start"}

\* the sub-passes are counted in the order off ascending, iff ascending
PassOrder ==
    /\ InSubPass => npass = off * L.input_fold_factor + iff + 1
    /\ pc = "configure" => npass = off * L.input_fold_factor + iff
    /\ pc \in {"rewire", "concat", "finish"} =>
          npass = L.output_fold_factor * L.input_fold_factor

\* a sub-pass that is not the last of its output fold
PartialPass ==
    (InSubPass /\ ~is_last_input_ch) =>
        /\ UnitsWith("set") = {"conv", "acc", "sw"}
        /\ UnitsWith("start") = {"conv", "acc"}
        /\ AccRegs = {<<ActivationAsU32("Linear"), 0>>}
        /\ ConfiguredFirst

(* C5 as claimed: in the last sub-pass of an output fold of a convolution   *)
(* stage the post-process unit (MaxPool, Yolo or Upsample) is configured    *)
(* and started.                                                             *)
C5_AsClaimed ==
    /\ PassOrder
    /\ PartialPass
    /\ (InSubPass /\ is_last_input_ch /\ ~L.conv_disable) =>
          /\ AccRegs = {<<ActivationAsU32(L.activate_type), 1>>}
          /\ UnitsWith("set") = {"conv", "acc", "sw"} \cup PostProcessUnits(L)
          /\ UnitsWith("start") = {"conv", "acc"} \cup PostProcessUnits(L)
          /\ ConfiguredFirst

(* C5 amended: forward_layer_group makes output_fold_factor *               *)
(* input_fold_factor sub-passes, off ascending and iff ascending within one *)
(* off.  A sub-pass that is not the last of its off configures and starts   *)
(* the convolution and accumulator units only, with BIAS_EN = 0 and LEAKY = *)
(* Linear.  The last sub-pass of a convolution stage configures the         *)
(* accumulator with BIAS_EN = 1 and the activation of the stage, routes the *)
(* stream switch to the post-process type and starts the post-process unit  *)
(* with the convolution and accumulator units; the MaxPool and Yolo units   *)
(* are configured first, the Upsample unit has no register written.         *)
C5_SubPasses ==
    /\ PassOrder
    /\ PartialPass
    /\ (InSubPass /\ is_last_input_ch /\ ~L.conv_disable) =>
          /\ AccRegs = {<<ActivationAsU32(L.activate_type), 1>>}
          /\ UnitsWith("set") = {"conv", "acc", "sw"} \cup (PostProcessUnits(L) \ {"upsamp"})
          /\ SwitchRoute = {<<L.post_process_type, 0>>}
          /\ UnitsWith("start") = {"conv", "acc"} \cup PostProcessUnits(L)
          /\ ConfiguredFirst

C5_Witness ==
    /\ grp_idx = 11
    /\ pc = "wait_ips"
    /\ off = L.output_fold_factor - 1
    /\ is_last_input_ch
    /\ npass = L.output_fold_factor * L.input_fold_factor
    /\ "upsamp" \in UnitsWith("start")

----------------------------------------------------------------------------
\* the positions of log that hold a DMA write of something else than weights
DataWrites == {n \in 1 .. Len(log) : log[n].op = "write" /\ log[n].kind # "weights"}

\* the positions of log that hold a DMA write of weights
WeightWrites == {n \in 1 .. Len(log) : log[n].op = "write" /\ log[n].kind = "weights"}

\* the write of the weight slice of the current sub-pass
WeightSliceWrite ==
    WriteEv("dma0", "weights", off, iff, get_weights(L, weights[grp_idx], off, iff).val)

(* C6: in a sub-pass (off, iff) of a convolution stage the weight slice of  *)
(* (off, iff) is written once, after every unit of the sub-pass has been    *)
(* configured and started; every write of input, accumulator or bias data   *)
(* comes after that write and after dma0 has been polled idle.              *)
C6_WeightsFirst ==
    (InSubPass /\ ~L.conv_disable) =>
        /\ \A m \in WeightWrites :
              /\ log[m] = WeightSliceWrite
              /\ BufLen(log[m].data) = weight_size(L)
              /\ \A q \in 1 .. m - 1 : log[q].op \in {"set", "start"}
              /\ {"conv", "acc"} \subseteq {log[q].unit : q \in {r \in 1 .. m - 1 : log[r].op = "start"}}
              /\ \A q \in m + 1 .. Len(log) : log[q].op \notin {"set", "start"}
        /\ Cardinality(WeightWrites) <= 1
        /\ pc # "transfer_weights" => Cardinality(WeightWrites) = 1
        /\ pc \notin {"transfer_weights", "weights_idle"} =>
              \E m \in WeightWrites : m + 1 <= Len(log) /\ log[m + 1] = IdleEv("dma0")
        /\ \A n \in DataWrites :
              \E m \in WeightWrites : m + 1 < n /\ log[m + 1] = IdleEv("dma0")

C6_Witness ==
    /\ InSubPass
    /\ ~L.conv_disable
    /\ ~is_last_input_ch
    /\ off > 0
    /\ Cardinality(DataWrites) = 2
    /\ Cardinality(WeightWrites) = 1

----------------------------------------------------------------------------
IsDataEv(e) ==
    /\ e.op \in {"write", "read", "idle", "done"}
    /\ e.kind # "weights"
    /\ ~(e.op = "idle" /\ e.unit = "dma0")

\* the calls of the data transfer of the sub-pass held by log
DataLog == SelectSeq(log, IsDataEv)

\* transfer_subchannel_data, as the claim orders it
ExpectedPartial ==
    << WriteEv("dma0", "inputs", iff, 0, get_inputs(L, inputs[grp_idx], iff).val),
       WriteEv("dma1", "acc", off, iff, acc_input_buff),
       ReadEv("dma0", "acc_out", L.acc_size, Fresh("acc_out", grp_idx, off, iff, L.acc_size)),
       DoneEv("acc") >>

\* transfer_last_channel_data of a convolution stage, as the claim orders it
ExpectedLast ==
    << WriteEv("dma1", "biases", off, 0, get_biases(L, biases[grp_idx], off).val),
       IdleEv("dma1"),
       WriteEv("dma1", "acc", off, iff, acc_input_buff),
       WriteEv("dma0", "inputs", iff, 0, get_inputs(L, inputs[grp_idx], iff).val),
       ReadEv("dma0", "output", L.output_size, Fresh("output", grp_idx, off, 0, L.output_size)),
       DoneEv(wait_ips_unit(L)) >>

IsPrefix(a, b) == Len(a) <= Len(b) /\ a = SubSeq(b, 1, Len(a))

Shape(a) == [n \in 1 .. Len(a) |-> <<a[n].op, a[n].unit, a[n].kind>>]

\* the data calls made when the controller is at p, in the order claimed
DoneBefore(p) ==
    CASE p \in {"transfer_weights", "weights_idle"} -> 0
      [] p = "transfer_biases" -> 0
      [] p = "biases_idle" -> 1
      [] p = "transfer_acc_input" -> IF is_last_input_ch THEN 2 ELSE 1
      [] p = "transfer_inputs" -> IF is_last_input_ch THEN 3 ELSE 0
      [] p = "transfer_acc_output" -> 2
      [] p = "wait_acc" -> 3
      [] p = "transfer_output" -> 4
      [] p = "wait_ips" -> 5

(* C7: in a sub-pass of a convolution stage that is not the last of its     *)
(* output fold the calls are: input slice iff, accumulator buffer, read of  *)
(* acc_size elements, wait for the accumulator; in the last one: bias slice *)
(* off, wait for dma1, accumulator buffer, input slice iff, read of         *)
(* output_size elements, stored at once, and then the wait for done.        *)
C7_TransferOrder ==
    /\ (InSubPass /\ ~L.conv_disable) =>
          /\ IsPrefix(DataLog, IF is_last_input_ch THEN ExpectedLast ELSE ExpectedPartial)
          /\ Len(DataLog) = DoneBefore(pc)
          /\ pc = "wait_ips" => outputs[grp_idx] = Some(OutputReads(grp_idx, off + 1))
          /\ pc = "wait_acc" => acc_output_buff = DataLog[3].data
    /\ (pc = "configure" /\ npass > 0 /\ ~L.conv_disable /\ iff > 0) =>
          Shape(DataLog) = Shape(ExpectedPartial)
    /\ (pc = "configure" /\ npass > 0 /\ ~L.conv_disable /\ iff = 0) =>
          Shape(DataLog) = Shape(ExpectedLast)
    /\ (pc \in {"rewire", "concat", "finish"} /\ ~L.conv_disable) =>
          Shape(DataLog) = Shape(ExpectedLast)

C7_Witness ==
    /\ pc = "wait_ips"
    /\ ~L.conv_disable
    /\ L.input_fold_factor > 1
    /\ off > 0
    /\ Len(DataLog) = 5
    /\ DataLog[5].op = "read"

----------------------------------------------------------------------------
(* C8: a sub-pass of the convolution-disabled stage writes one DMA buffer,  *)
(* the input slice of index off, writes no weights, biases or accumulator   *)
(* buffer and starts neither the convolution nor the accumulator unit; the  *)
(* stage never fails for a weights or biases buffer that is absent.         *)
C8_ConvDisabled ==
    /\ (InSubPass /\ L.conv_disable) =>
          /\ \A n \in 1 .. Len(log) : log[n].op = "write" =>
                log[n] = WriteEv("dma0", "inputs", off, 0, get_inputs(L, inputs[grp_idx], off).val)
          /\ Cardinality({n \in 1 .. Len(log) : log[n].op = "write"})
                = IF pc = "transfer_inputs" THEN 0 ELSE 1
          /\ UnitsWith("start") = PostProcessUnits(L)
          /\ pc \in {"transfer_inputs", "transfer_output", "wait_ips"}
    /\ (status # "init" /\ L.conv_disable /\ pc \in {"configure", "rewire"} /\ npass > 0) =>
          /\ Cardinality({n \in 1 .. Len(log) : log[n].op = "write"}) = 1
          /\ Shape(DataLog) = << <<"write", "dma0", "inputs">>, <<"read", "dma0", "output">>,
                                 <<"done", wait_ips_unit(L), "">> >>
    /\ (L.conv_disable /\ status \in {"err", "panic"}) => error = "dma"

C8_Witness ==
    /\ grp_idx = 5
    /\ pc = "rewire"
    /\ IsNone(weights[5])
    /\ IsNone(biases[5])
    /\ outputs[5] = Some(StageOutput(5))

----------------------------------------------------------------------------
\* the positions of log that hold a write of the accumulator buffer
AccWrites == {n \in 1 .. Len(log) : log[n].op = "write" /\ log[n].kind = "acc"}

\* the partial result read back in the sub-pass (o, i) of the current stage
PartialResult(o, i) == Fresh("acc_out", grp_idx, o, i, L.acc_size)

(* C9: the accumulator buffer written in the sub-pass (off, 0) is acc_size  *)
(* zeros; the one written in (off, iff), iff > 0, is the partial result     *)
(* read back in (off, iff - 1), so never one of another output fold.        *)
C9_PingPong ==
    /\ \A n \in AccWrites :
          /\ log[n].data = IF log[n].j = 0 THEN ZeroVec(L.acc_size)
                           ELSE PartialResult(log[n].i, log[n].j - 1)
          /\ BufLen(log[n].data) = L.acc_size
          /\ InSubPass => (log[n].i = off /\ log[n].j = iff)
    /\ InStage =>
          acc_input_buff = IF iff = 0 THEN ZeroVec(L.acc_size) ELSE PartialResult(off, iff - 1)

C9_Witness ==
    /\ InSubPass
    /\ off > 0
    /\ iff > 1
    /\ \E n \in AccWrites : log[n].data = PartialResult(off, iff - 1)

----------------------------------------------------------------------------
\* the elements [output_size * o, output_size * (o + 1)) of the output of stage k
OutputFold(k, o) ==
    Slice(Unwrap(outputs[k]), LG(k).output_size * o, LG(k).output_size * (o + 1))

\* the calls of set_outputs made on stage k before the last call of log
EarlierCalls(k) == {n \in 1 .. Len(log) - 1 : log[n].op = "set_outputs" /\ log[n].i = k}

(* C10 as claimed: after set_outputs(off, data), whatever calls came        *)
(* before, data is at [output_size * off, output_size * (off + 1)) of the   *)
(* output buffer, and when the buffer was absent and off > 0 the elements   *)
(* before output_size * off are zero.                                       *)
C10_AsClaimed ==
    (log # <<>> /\ log[Len(log)].op = "set_outputs") =>
        LET k == log[Len(log)].i
            o == log[Len(log)].j
        IN /\ IsSome(outputs[k])
           /\ SliceInRange(Unwrap(outputs[k]), LG(k).output_size * o, LG(k).output_size * (o + 1))
           /\ OutputFold(k, o) = log[Len(log)].data
           /\ (EarlierCalls(k) = {} /\ o > 0) =>
                 Slice(Unwrap(outputs[k]), 0, LG(k).output_size * o)
                    = ZeroVec(LG(k).output_size * o)

----------------------------------------------------------------------------
\* the messages of the accessors for an absent buffer
BufferNotReady == {"Weight is not set", "Input is not set", "Bias is not set"}

\* the positions of log that hold a DMA write or read
Transfers == {n \in 1 .. Len(log) : log[n].op \in {"write", "read"}}

\* what the DMA transfers of log carry, in order
TransferKinds == [n \in 1 .. Len(SelectSeq(log, LAMBDA e : e.op \in {"write", "read"})) |->
                    SelectSeq(log, LAMBDA e : e.op \in {"write", "read"})[n].kind]

\* forward_layer_group has returned the error of an accessor
AccessorFailed == pc = "returned" /\ status = "err" /\ error \in BufferNotReady

\* the accessors on an absent buffer, for every stage and index argument
AbsentIsError ==
    \A k \in Stages, o \in 0 .. MaxIdx, i \in 0 .. MaxIdx :
        /\ get_weights(LG(k), None, o, i) = Err("Weight is not set")
        /\ get_inputs(LG(k), None, i) = Err("Input is not set")
        /\ get_biases(LG(k), None, o) = Err("Bias is not set")

(* C11 as claimed: an accessor error is returned by forward_layer_group     *)
(* before any DMA write or read of the sub-pass is issued.                  *)
C11_AsClaimed ==
    /\ AbsentIsError
    /\ AccessorFailed => Transfers = {}

\* where the error of each accessor falls among the transfers of the sub-pass
ErrorPlace ==
    /\ AbsentIsError
    /\ status # "panic"
    /\ (pc = "returned" /\ ~L.conv_disable /\ IsNone(weights[grp_idx])) =>
          error = "Weight is not set"
    /\ (AccessorFailed /\ error = "Weight is not set") => Transfers = {}
    /\ (AccessorFailed /\ error = "Bias is not set") =>
          /\ TransferKinds = <<"weights">>
          /\ log[Len(log)] = IdleEv("dma0")
    /\ (AccessorFailed /\ error = "Input is not set") =>
          TransferKinds = IF L.conv_disable THEN <<>>
                          ELSE IF is_last_input_ch THEN <<"weights", "biases", "acc">>
                          ELSE <<"weights">>

(* C11 amended: get_weights, get_inputs and get_biases return an error, not *)
(* a panic, when their buffer is absent, for every index argument, and the  *)
(* buffers of the LayerGroup stay as they were.  In forward_layer_group the *)
(* error of get_weights is returned before any DMA transfer of the          *)
(* sub-pass; the error of get_biases after the weight slice has been        *)
(* written and dma0 polled idle, before any other transfer; the error of    *)
(* get_inputs before any transfer in a convolution-disabled stage, and else *)
(* after the weight slice (and, in the last sub-pass of an output fold,     *)
(* after the bias slice and the accumulator buffer) has been written.       *)
C11_AccessorErrors ==
    /\ []ErrorPlace
    /\ [][(pc' = "returned" /\ error' \in BufferNotReady) =>
             UNCHANGED <<inputs, outputs, weights, biases>>]_vars

C11_Witness ==
    /\ AccessorFailed
    /\ error = "Bias is not set"
    /\ IsNone(biases[grp_idx])
    /\ Cardinality(Transfers) = 1

----------------------------------------------------------------------------
\* a DMA write, read or idle poll has returned an error
DmaFailed == pc = "returned" /\ error = "dma"

\* the transfers of log, as <<op, unit, kind>>
TransferShapes == {<<log[n].op, log[n].unit, log[n].kind>> : n \in Transfers}

\* the state start_processing is left in by a DMA error in stage grp_idx
AbortedAtOnce ==
    /\ status = "err" => pc = "returned"
    /\ DmaFailed =>
          /\ status = "err"
          /\ result = None
          /\ ran = [n \in 1 .. grp_idx |-> n - 1]
          /\ npass = off * L.input_fold_factor + iff + 1
          /\ \A j \in Stages : j > grp_idx => (inputs[j] = None /\ outputs[j] = None)
          /\ outputs[grp_idx] = IF off = 0 THEN None ELSE Some(OutputReads(grp_idx, off))
          /\ Cardinality(Transfers) = Cardinality(TransferShapes)
          /\ \A n \in Transfers : log[n].op = "write"
          /\ \A n \in 1 .. Len(log) : log[n].op # "done"

(* C12: when a DMA write, read or idle poll returns an error during stage k *)
(* the error is returned at once: the sub-pass it happened in is the last   *)
(* one configured, no transfer of it is made twice or made after the        *)
(* failure, no stage after k runs or gets an input, start_processing        *)
(* returns an error and no outputs, and nothing is done afterwards.         *)
C12_DmaAbort ==
    /\ []AbortedAtOnce
    /\ [][pc # "returned"]_vars

C12_Witness ==
    /\ DmaFailed
    /\ grp_idx = 7
    /\ off > 0
    /\ iff > 0
    /\ Cardinality(Transfers) = 2
    /\ IsSome(outputs[7])

----------------------------------------------------------------------------
\* the positions of log that hold the call op on the engine u
EngineCalls(op, u) == {n \in 1 .. Len(log) : log[n].op = op /\ log[n].unit = u}

\* start_processing makes no start or stop call on a DMA engine
NoEngineCall ==
    \A u \in {"dma0", "dma1"} : EngineCalls("start", u) = {} /\ EngineCalls("stop", u) = {}

\* the engines over the life of a controller
StartedOnceStoppedAtDrop ==
    /\ \A u \in {"dma0", "dma1"} :
          /\ Cardinality(EngineCalls("start", u)) <= 1
          /\ EngineCalls("start", u) # {} => npass = Len(NewSteps)
          /\ pc \in {"init", "idle", "unwinding", "dropped"} =>
                Cardinality(EngineCalls("start", u)) = 1
          /\ \A n \in EngineCalls("stop", u) : \E m \in EngineCalls("start", u) : m < n
          /\ pc = "dropped" => EngineCalls("stop", u) # {}
    /\ pc = "dropped" =>
          /\ Len(log) >= 4
          /\ SubSeq(log, Len(log) - 1, Len(log)) = <<StopEv("dma0"), StopEv("dma1")>>
    /\ pc = "returned" =>
          /\ status = "err"
          /\ npass < Len(NewSteps)
          /\ log = <<>>

(* C13: both DMA engines are started once per controller, in new, after     *)
(* every hardware lookup and unit construction has succeeded; both are      *)
(* stopped when the controller is dropped, after successful forward passes, *)
(* after a forward pass that failed and when init panics once the engines   *)
(* are started; when a lookup or a unit construction fails new returns an   *)
(* error and no engine has been started.                                    *)
C13_EngineLifetime ==
    /\ []StartedOnceStoppedAtDrop
    /\ [][pc = "unwinding" => pc' = "dropped"]_vars

C13_Witness ==
    /\ pc = "dropped"
    /\ ran = <<"ok", "err">>
    /\ log = <<StartEv("dma0"), StartEv("dma1"), StopEv("dma0"), StopEv("dma1")>>

----------------------------------------------------------------------------
\* ceil(n / 4): the least m with 4 * m >= n
Ceil4(n) == CHOOSE m \in 0 .. n : 4 * m >= n /\ 4 * (m - 1) < n

\* the arguments init gives for the stage k: <<input_w, input_h, input_ch,
\* input_fold_factor, output_w, output_h, output_ch, output_fold_factor>>
InitArgs ==
    << <<416, 416,  3,  1, 208, 208, 16,  1>>, <<208, 208, 16,  1, 104, 104, 32,  1>>,
       <<104, 104, 32,  1,  52,  52, 32,  2>>, << 52,  52, 32,  2,  26,  26, 32,  4>>,
       << 26,  26, 32,  4,  26,  26, 32,  8>>, << 26,  26, 32,  1,  13,  13, 32,  8>>,
       << 13,  13, 32,  8,  13,  13, 32, 16>>, << 13,  13, 32, 16,  13,  13, 32, 32>>,
       << 13,  13, 32, 32,  13,  13, 32,  8>>, << 13,  13, 32,  8,  13,  13, 32, 16>>,
       << 13,  13, 32, 16,  13,  13, 32,  8>>, << 13,  13, 32,  8,  26,  26, 32,  4>>,
       << 26,  26, 32, 12,  26,  26, 32,  8>>, << 26,  26, 32,  8,  26,  26, 32,  8>> >>

\* the fields of the 14 LayerGroups follow the formulas (every product is far
\* below 2^32, the largest being 2768896)
SizesFollowFormulas ==
    /\ Len(layer_groups) = 14
    /\ \A k \in Stages :
          LET l == LG(k)
              a == InitArgs[k + 1]
          IN /\ <<l.input_width, l.input_height, l.input_ch, l.input_fold_factor,
                   l.output_width, l.output_height, l.output_ch, l.output_fold_factor>> = a
             /\ l.input_fold_ch = Ceil4(l.input_ch)
             /\ l.output_fold_ch = Ceil4(l.output_ch)
             /\ l.input_size = l.input_width * l.input_height * l.input_fold_ch * 4
             /\ l.output_size = l.output_width * l.output_height * l.output_fold_ch * 4
             /\ l.acc_size = l.input_width * l.input_height * l.output_fold_ch * 4

(* C14: for each of the 14 LayerGroups init builds, input_fold_ch =          *)
(* ceil(input_ch / 4), output_fold_ch = ceil(output_ch / 4), input_size =    *)
(* input_w * input_h * input_fold_ch * 4, output_size = output_w * output_h  *)
(* * output_fold_ch * 4 and acc_size = input_w * input_h * output_fold_ch *  *)
(* 4; no step of a forward pass changes a field of a LayerGroup other than   *)
(* its four buffers.                                                         *)
C14_Sizes ==
    /\ []SizesFollowFormulas
    /\ [][layer_groups' = layer_groups]_vars

C14_Witness ==
    /\ status = "ok"
    /\ LG(0).input_fold_ch = 1
    /\ LG(0).input_size = 692224
    /\ LG(0).acc_size = 2768896
    /\ LG(13).output_size = 21632

----------------------------------------------------------------------------
Range(q) == {q[n] : n \in 1 .. Len(q)}

\* the boxes of the input that pass the confidence filter
Filtered == {d \in Range(args.bb) : PassesFilter(d, args.obj_threshold)}

\* a and b are of one class and overlap by more than nms_threshold
Overlap(a, b) == a.class = b.class /\ Gt(iou(a, b), args.nms_threshold)

(* C15 as claimed: in the list nms_process returns no two boxes of one      *)
(* class overlap by more than nms_threshold, and every box that passed the  *)
(* confidence filter and is not returned overlaps by more than              *)
(* nms_threshold a returned box of its class whose confidence is at least   *)
(* as high.                                                                 *)
C15_AsClaimed ==
    pc = "returned" =>
        /\ \A i \in 1 .. Len(ret.out), j \in 1 .. Len(ret.out) :
              i < j => ~Overlap(ret.out[i], ret.out[j])
        /\ \A d \in Filtered \ Range(ret.out) :
              \E r \in Range(ret.out) : Overlap(r, d) /\ r.confidence >= d.confidence

(* C16 as claimed: of two boxes of one class that pass the filter and       *)
(* overlap by more than nms_threshold, the one with the higher confidence   *)
(* is returned and the other is not; a box of the highest confidence of its *)
(* class among those that pass the filter is always returned.               *)
C16_AsClaimed ==
    pc = "returned" =>
        /\ \A a \in Filtered, b \in Filtered :
              (Overlap(a, b) /\ a.confidence > b.confidence) =>
                  (a \in Range(ret.out) /\ b \notin Range(ret.out))
        /\ \A c \in BoxClasses :
              (\E d \in Filtered : d.class = c) =>
                  \E r \in Range(ret.out) :
                      /\ r.class = c
                      /\ \A d \in Filtered : d.class = c => r.confidence >= d.confidence

(* C17 as claimed: nms_process applied to the list it returned, with the    *)
(* same thresholds, returns the same set of boxes.                          *)
C17_AsClaimed ==
    pc = "returned again" => Range(ret.out) = Range(args.bb)

----------------------------------------------------------------------------
Min(x, y) == IF x < y THEN x ELSE y
Max(x, y) == IF x > y THEN x ELSE y

Area(d) == (d.x2 - d.x1) * (d.y2 - d.y1)

\* the area of the intersection of a and b, 0 when they do not overlap
IntersectionArea(a, b) ==
    Max(0, Min(a.x2, b.x2) - Max(a.x1, b.x1)) * Max(0, Min(a.y2, b.y2) - Max(a.y1, b.y1))

UnionArea(a, b) == Area(a) + Area(b) - IntersectionArea(a, b)

\* the interiors of a and b have a point in common
InteriorsOverlap(a, b) ==
    Max(a.x1, b.x1) < Min(a.x2, b.x2) /\ Max(a.y1, b.y1) < Min(a.y2, b.y2)

\* equality of two quotients with positive denominators
SameQuotient(q, r) == q[2] > 0 /\ r[2] > 0 /\ q[1] * r[2] = r[1] * q[2]

(* C18 as claimed: iou(a, b) is the intersection area over the union area   *)
(* area_a + area_b - intersection_area, is symmetric and lies in [0, 1].    *)
C18_AsClaimed ==
    pc = "returned" =>
        /\ UnionArea(args.a, args.b) > 0 =>
              SameQuotient(ret.out, <<IntersectionArea(args.a, args.b), UnionArea(args.a, args.b)>>)
        /\ SameQuotient(iou(args.a, args.b), iou(args.b, args.a))
        /\ 0 <= ret.out[1] /\ ret.out[1] <= ret.out[2]

(* C19: iou(a, a) = 1 for every box a of positive width and height, and     *)
(* iou(a, b) = 0 for every two boxes whose interiors have no point in       *)
(* common, boxes that touch along an edge included; so for both copies.     *)
C19_IouEnds ==
    pc = "returned" =>
        /\ (args.a = args.b /\ Area(args.a) > 0) => SameQuotient(ret.out, <<1, 1>>)
        /\ ~InteriorsOverlap(args.a, args.b) => SameQuotient(ret.out, <<0, 1>>)
        /\ InteriorsOverlap(args.a, args.b) => ret.out[1] > 0

C19_Witness ==
    /\ pc = "returned"
    /\ ret.fn = "nms"
    /\ args.a.x2 = args.b.x1
    /\ Area(args.a) > 0
    /\ Area(args.b) > 0
    /\ args.a.y1 = args.b.y1
    /\ args.a.y2 = args.b.y2
    /\ ret.out = <<0, 1>>

----------------------------------------------------------------------------
\* the scores of the slot idx
SlotScores == [j \in 0 .. args.cls_num - 1 |-> args.cls_concat[args.idx * args.cls_num + j + 1]]

\* the classes whose score is the maximum of the slot
Maxima == {j \in DOMAIN SlotScores : \A k \in DOMAIN SlotScores : SlotScores[j] >= SlotScores[k]}

\* the classes whose score is the maximum of the scores of the slot within [0, 1]
MaximaInRange ==
    {j \in DOMAIN SlotScores :
        /\ 0 <= SlotScores[j] /\ SlotScores[j] <= 256
        /\ \A k \in DOMAIN SlotScores :
              (0 <= SlotScores[k] /\ SlotScores[k] <= 256) => SlotScores[j] >= SlotScores[k]}

SetMin(S) == CHOOSE x \in S : \A y \in S : x <= y
SetMax(S) == CHOOSE x \in S : \A y \in S : x >= y

----------------------------------------------------------------------------
(* fix2float                                                                *)
(*                                                                          *)
(* An f32 is kept as <<m, e>>, the value m * 2^e with m odd (<<0, 0>> for   *)
(* zero): the significand and the exponent of the float. The conversions    *)
(* below are exact as long as the significand has at most 24 bits, which    *)
(* every i16 has.                                                           *)

\* the range of i16
I16_MIN == -32768
I16_MAX == 32767

\* the f32 of significand m and exponent e, normalised
RECURSIVE F32(_, _)
F32(m, e) ==
    IF m = 0 THEN <<0, 0>>
    ELSE IF m % 2 = 0 THEN F32(m \div 2, e + 1)
    ELSE <<m, e>>

\* `input as f32`
AsF32(input) == F32(input, 0)

\* 2f32.powi(n)
powi2(n) == F32(1, n)

\* a / b for b a power of two
F32Div(a, b) == F32(a[1], a[2] - b[2])

\* -a
F32Neg(a) == <<-a[1], a[2]>>

\* fix2float dividing by 2^7
fix2float_q7(input) == F32Div(AsF32(input), powi2(7))

\* postprocess::fix2float
fix2float(input) == F32Div(AsF32(input), powi2(8))

\* `-x` on an i16: on overflow the debug build panics (None) and the release
\* build wraps
NegI16(x) == IF x = I16_MIN THEN {None, Some(I16_MIN)} ELSE {Some(-x)}

InitFix ==
    /\ ControllerUnused
    /\ pc = "call"
    /\ ret = <<>>
    /\ \E x \in I16_MIN .. I16_MAX : args = [input |-> x, negated |-> None]

\* fix2float(input), and later fix2float of the negated input
Fix2FloatCall ==
    /\ pc \in {"call", "negated"}
    /\ ret' = [fn |-> "fix2float",
               out |-> fix2float(IF pc = "call" THEN args.input ELSE Unwrap(args.negated)),
               first |-> IF pc = "call" THEN None ELSE Some(ret.out)]
    /\ pc' = IF pc = "call" THEN "returned" ELSE "returned again"
    /\ UNCHANGED <<ctl, args>>

\* the caller negates the input it has just converted
NegateInput ==
    /\ pc = "returned"
    /\ \E v \in NegI16(args.input) :
          IF IsNone(v)
          THEN pc' = "panicked" /\ args' = args
          ELSE pc' = "negated" /\ args' = [args EXCEPT !.negated = v]
    /\ UNCHANGED <<ctl, ret>>

NextFix ==
    \/ Fix2FloatCall
    \/ NegateInput

SpecFix == InitFix /\ [][NextFix]_vars

----------------------------------------------------------------------------
\* 256 times the f32 a, for a a multiple of 2^-8
Times256(a) == IF a[2] >= -8 THEN a[1] * 2 ^ (a[2] + 8) ELSE -1

\* what fix2float was last called on
Converted == IF pc = "returned" THEN args.input ELSE Unwrap(args.negated)

\* fix2float(x) * 256 = x, fix2float(256) = 1 and fix2float(0) = 0
ExactOnQ88 ==
    pc \in {"returned", "returned again"} =>
        /\ ret.out[2] >= -8
        /\ Times256(ret.out) = Converted
        /\ Converted = 256 => ret.out = <<1, 0>>
        /\ Converted = 0 => ret.out = <<0, 0>>

(* C21 as claimed: fix2float(x) * 256 = x for every 16-bit signed x, and    *)
(* fix2float(-x) = -fix2float(x) for every x of the 16-bit signed range;    *)
(* fix2float(256) = 1 and fix2float(0) = 0.                                 *)
C21_AsClaimed ==
    /\ ExactOnQ88
    /\ pc # "panicked"
    /\ pc = "returned again" => ret.out = F32Neg(Unwrap(ret.first))

(* C21 amended: fix2float(x) * 256 = x for every 16-bit signed x,           *)
(* fix2float(256) = 1, fix2float(0) = 0, and fix2float(-x) = -fix2float(x)  *)
(* for every x of -32767 .. 32767; -x of -32768 is no 16-bit value: the     *)
(* negation panics or wraps to -32768, whose conversion is -128 again.      *)
C21_Fix2Float ==
    /\ ExactOnQ88
    /\ (pc = "returned again" /\ args.input # I16_MIN) => ret.out = F32Neg(Unwrap(ret.first))
    /\ pc = "panicked" => args.input = I16_MIN
    /\ (pc = "returned again" /\ args.input = I16_MIN) => ret.out = Unwrap(ret.first)

C21_Witness ==
    /\ pc = "returned again"
    /\ args.input = -255
    /\ Unwrap(ret.first) = <<-255, -8>>
    /\ ret.out = <<255, -8>>

----------------------------------------------------------------------------
(* ch_reorder and ch_reshape                                                *)
(*                                                                          *)
(* An array is a sequence, element n of the code being element n + 1 here.  *)
(* The arrays handed in hold, at every index but one, the index itself, and *)
(* at the index p the mark -1: all elements differ, so an element of the    *)
(* result tells which element of the argument it was read from.             *)

\* the largest grid_num tried
MaxGrid == 2

\* the cls_num the channel reshape is tried with, beside ClsNum
YoloClsNum == 80

ANCHOR_BOX_NUM == 3

Marked(n, p) == [m \in 1 .. n |-> IF m - 1 = p THEN -1 ELSE m - 1]

\* the indexes pushed for the cell i from the group j on: `for k in 0..32`
RECURSIVE reorder_groups(_, _, _)
reorder_groups(grid_num, i, j) ==
    IF j >= 8 THEN <<>>
    ELSE [k \in 1 .. 32 |-> (grid_num * grid_num * 32) * j + 32 * i + (k - 1)]
             \o reorder_groups(grid_num, i, j + 1)

\* the indexes pushed from the cell i on: `for i in 0..grid_num * grid_num`
RECURSIVE reorder_cells(_, _)
reorder_cells(grid_num, i) ==
    IF i >= grid_num * grid_num THEN <<>>
    ELSE reorder_groups(grid_num, i, 0) \o reorder_cells(grid_num, i + 1)

\* the array of the elements of arr at the indexes ix, a panic if one is out of range
Gather(arr, ix) ==
    IF \E n \in 1 .. Len(ix) : ix[n] >= Len(arr)
    THEN Panic
    ELSE Ok([n \in 1 .. Len(ix) |-> arr[ix[n] + 1]])

\* ch_reorder with the stride of a row of cells for a group
ch_reorder_row_stride(arr, grid_num) ==
    Gather(arr, [n \in 1 .. grid_num * grid_num * 256 |->
                    (grid_num * 32) * (((n - 1) % 256) \div 32)
                        + 32 * ((n - 1) \div 256) + ((n - 1) % 32)])

\* postprocess::ch_reorder
ch_reorder(arr, grid_num) == Gather(arr, reorder_cells(grid_num, 0))

\* utils::post_process, channel reorder: the same loops, written once for
\* grid_13 and once for grid_26
utils_ch_reorder(arr, grid) == Gather(arr, reorder_cells(grid, 0))

\* the index ch_reshape reads for reshape[n]
reshape_index(n) ==
    LET i == (n \div 18) * 18
        index == n % 18
        base_index == (i \div 18) * 256
        reorder_index == base_index + 85 * (index \div 6) + (index % 6)
        offset == IF index % 6 = 5 THEN 1 ELSE 0
    IN reorder_index + offset

\* the index ch_reshape reads for class[n]: n = cnt_cls + j * cls_num + k
class_index(n, cls_num) ==
    LET cell == n \div (ANCHOR_BOX_NUM * cls_num)
        j == (n % (ANCHOR_BOX_NUM * cls_num)) \div cls_num
        k == n % cls_num
    IN cell * 256 + 85 * j + 5 + k

\* ch_reshape reading every sixth slot without the offset
ch_reshape_no_offset(reorder_arr, grid_num, cls_num) ==
    LET reshape == Gather(reorder_arr, [n \in 1 .. grid_num * grid_num * 18 |->
                        ((n - 1) \div 18) * 256 + 85 * (((n - 1) % 18) \div 6) + ((n - 1) % 6)])
        class == Gather(reorder_arr, [n \in 1 .. grid_num * grid_num * ANCHOR_BOX_NUM * cls_num |->
                                         class_index(n - 1, cls_num)])
    IN IF reshape.tag = "ok" /\ class.tag = "ok" THEN Ok(<<reshape.val, class.val>>) ELSE Panic

\* postprocess::ch_reshape: (reshape, class)
ch_reshape(reorder_arr, grid_num, cls_num) ==
    LET reshape == Gather(reorder_arr, [n \in 1 .. grid_num * grid_num * 18 |->
                                           reshape_index(n - 1)])
        class == Gather(reorder_arr, [n \in 1 .. grid_num * grid_num * ANCHOR_BOX_NUM * cls_num |->
                                         class_index(n - 1, cls_num)])
    IN IF reshape.tag = "ok" /\ class.tag = "ok" THEN Ok(<<reshape.val, class.val>>) ELSE Panic

InitChan ==
    /\ ControllerUnused
    /\ pc = "call"
    /\ ret = <<>>
    /\ \E grid_num \in 1 .. MaxGrid, cls_num \in {ClsNum, YoloClsNum} :
          \E p \in 0 .. grid_num * grid_num * 256 - 1 :
              args = [arr |-> Marked(grid_num * grid_num * 256, p), grid_num |-> grid_num,
                      cls_num |-> cls_num, p |-> p]

\* ch_reorder(&arr, grid_num)
ChReorderCall ==
    /\ pc = "call"
    /\ ret' = [fn |-> "postprocess", out |-> ch_reorder(args.arr, args.grid_num)]
    /\ pc' = "reordered"
    /\ UNCHANGED <<ctl, args>>

\* the channel reorder of utils::post_process
UtilsChReorderCall ==
    /\ pc = "call"
    /\ ret' = [fn |-> "utils", out |-> utils_ch_reorder(args.arr, args.grid_num)]
    /\ pc' = "reordered"
    /\ UNCHANGED <<ctl, args>>

\* ch_reshape(&reorder, grid_num, cls_num) on what ch_reorder returned
ChReshapeCall ==
    /\ pc = "reordered"
    /\ ret.fn = "postprocess"
    /\ ret.out.tag = "ok"
    /\ ret' = [fn |-> "postprocess", out |-> ch_reshape(ret.out.val, args.grid_num, args.cls_num)]
    /\ pc' = "reshaped"
    /\ UNCHANGED <<ctl, args>>

NextChan ==
    \/ ChReorderCall
    \/ UtilsChReorderCall
    \/ ChReshapeCall

SpecChan == InitChan /\ [][NextChan]_vars

----------------------------------------------------------------------------
\* the index of the raw tensor the claim gives for the index n of the result
RawIndex(n, grid_num) ==
    LET cell == n \div 256
        j == (n % 256) \div 32
        k == n % 32
    IN grid_num * grid_num * 32 * j + 32 * cell + k

Elements(s) == {s[n] : n \in 1 .. Len(s)}

(* C22: after ch_reorder, reordered[cell*256 + j*32 + k] is                 *)
(* raw[grid_num^2*32*j + 32*cell + k] for every cell, j in [0,8) and k in   *)
(* [0,32); the index map is a bijection on [0, grid_num^2*256), so every    *)
(* raw element is in the result exactly once, and no index outside the raw  *)
(* tensor is read. So for postprocess.rs and for utils.rs.                  *)
C22_Reorder ==
    pc = "reordered" =>
        LET size == args.grid_num * args.grid_num * 256
        IN /\ ret.out.tag = "ok"
           /\ Len(ret.out.val) = size
           /\ \A n \in 0 .. size - 1 :
                 ret.out.val[n + 1] = args.arr[RawIndex(n, args.grid_num) + 1]
           /\ {RawIndex(n, args.grid_num) : n \in 0 .. size - 1} = 0 .. size - 1
           /\ Elements(ret.out.val) = Elements(args.arr)

C22_Witness ==
    /\ pc = "reordered"
    /\ ret.fn = "postprocess"
    /\ args.grid_num = 2
    /\ args.p = 4 * 32 * 1 + 32 * 3 + 5
    /\ ret.out.tag = "ok"
    /\ ret.out.val[3 * 256 + 1 * 32 + 5 + 1] = -1

----------------------------------------------------------------------------
\* the elements of the two arrays ch_reshape returned
Reshaped == Elements(ret.out.val[1]) \cup Elements(ret.out.val[2])

\* the channels of a cell ch_reshape reads: of each anchor j the five box and
\* objectness channels, the cls_num class channels, and the channel 85 * j + 6
ReadChannels(cls_num) ==
    {85 * j + c : j \in 0 .. ANCHOR_BOX_NUM - 1, c \in 0 .. 4 + cls_num}
        \cup {85 * j + 6 : j \in 0 .. ANCHOR_BOX_NUM - 1}

\* the element of x that ch_reorder puts at the channel ch of the cell
XAt(cell, ch) == args.arr[RawIndex(cell * 256 + ch, args.grid_num) + 1]

(* C23 as claimed: the two arrays ch_reshape(ch_reorder(x)) returns         *)
(* determine every element of x.                                            *)
C23_AsClaimed ==
    pc = "reshaped" => /\ ret.out.tag = "ok"
                       /\ Elements(args.arr) \subseteq Reshaped

(* C23 amended: the two arrays ch_reshape(ch_reorder(x)) returns hold, for  *)
(* every cell and anchor j, the channels 85j .. 85j+4 of the cell (slots    *)
(* 6j .. 6j+4 of the 18-wide record), the channel 85j+6 (slot 6j+5) and the *)
(* channels 85j+5 .. 85j+4+cls_num (class array); they determine these      *)
(* elements of x and no other: for cls_num = 80 every channel but the 256th *)
(* of each cell.                                                            *)
C23_ReshapeKeeps ==
    pc = "reshaped" =>
        LET kept == Reshaped
            read == ReadChannels(args.cls_num)
        IN /\ ret.out.tag = "ok"
           /\ \A cell \in 0 .. args.grid_num * args.grid_num - 1 :
                 /\ \A j \in 0 .. ANCHOR_BOX_NUM - 1 :
                       /\ \A c \in 0 .. 4 :
                             ret.out.val[1][18 * cell + 6 * j + c + 1] = XAt(cell, 85 * j + c)
                       /\ ret.out.val[1][18 * cell + 6 * j + 5 + 1] = XAt(cell, 85 * j + 6)
                       /\ \A k \in 0 .. args.cls_num - 1 :
                             ret.out.val[2][(cell * ANCHOR_BOX_NUM + j) * args.cls_num + k + 1]
                                 = XAt(cell, 85 * j + 5 + k)
                 /\ \A ch \in 0 .. 255 : XAt(cell, ch) \in kept <=> ch \in read
           /\ args.cls_num = YoloClsNum => read = 0 .. 254

C23_Witness ==
    /\ pc = "reshaped"
    /\ args.cls_num = YoloClsNum
    /\ args.grid_num = 2
    /\ args.p = RawIndex(2 * 256 + 255, 2)
    /\ ret.out.tag = "ok"
    /\ -1 \notin Reshaped

----------------------------------------------------------------------------
(* Arithmetic of the decode and of the reverse transform                    *)
(*                                                                          *)
(* A number is kept as the quotient <<n, d>> of two integers in lowest      *)
(* terms, d > 0: the operations are those of the f32 code without their     *)
(* rounding. exp has no such value: a * exp(v) is kept as the pair of a and *)
(* v.                                                                       *)

Abs(n) == IF n < 0 THEN -n ELSE n

RECURSIVE Gcd(_, _)
Gcd(a, b) == IF b = 0 THEN a ELSE Gcd(b, a % b)

Rat(n, d) ==
    LET g == Gcd(Abs(n), Abs(d))
    IN IF d < 0 THEN <<(-n) \div g, (-d) \div g>> ELSE <<n \div g, d \div g>>

RAdd(a, b) == Rat(a[1] * b[2] + b[1] * a[2], a[2] * b[2])
RSub(a, b) == Rat(a[1] * b[2] - b[1] * a[2], a[2] * b[2])
RMul(a, b) == Rat(a[1] * b[1], a[2] * b[2])
RDiv(a, b) == Rat(a[1] * b[2], a[2] * b[1])
RLe(a, b) == a[1] * b[2] <= b[1] * a[2]
RMin(a, b) == IF RLe(a, b) THEN a ELSE b
RMax(a, b) == IF RLe(a, b) THEN b ELSE a
RAbs(a) == <<Abs(a[1]), a[2]>>

\* a * v.exp()
TimesExp(a, v) == [times |-> a, exp |-> v]

----------------------------------------------------------------------------
(* get_anchor_box *)

\* the raw Q8.8 values of the record handed to the decode start in
\* -MaxRaw .. MaxRaw
MaxRaw == 8

anchor_box_13 == <<<<81, 82>>, <<135, 169>>, <<344, 319>>>>
anchor_box_26 == <<<<23, 27>>, <<37, 58>>, <<81, 82>>>>

\* the body of `for (j, ab) in anchor_box.iter().enumerate()` for the anchors from j on
RECURSIVE decode_anchors(_, _, _, _, _, _, _)
decode_anchors(reshape, grid_width, anchor_box, i, j, w_cnt, h_cnt) ==
    IF j >= Len(anchor_box) THEN reshape
    ELSE LET idx == i + 6 * j
             ab == anchor_box[j + 1]
         IN decode_anchors(
                [reshape EXCEPT
                    ![idx + 1] = RAdd(RMul(grid_width, w_cnt), RMul(grid_width, reshape[idx + 1])),
                    ![idx + 2] = RAdd(RMul(grid_width, h_cnt), RMul(grid_width, reshape[idx + 2])),
                    ![idx + 3] = TimesExp(ab[1], reshape[idx + 3]),
                    ![idx + 4] = TimesExp(ab[2], reshape[idx + 4])],
                grid_width, anchor_box, i, j + 1, w_cnt, h_cnt)

\* the cells from i on, counting the rows first
RECURSIVE decode_cells_by_column(_, _, _, _, _, _)
decode_cells_by_column(reshape, grid_num, anchor_box, i, w_cnt, h_cnt) ==
    IF i >= grid_num * grid_num * 18 THEN reshape
    ELSE LET done == decode_anchors(reshape, Rat(416, grid_num), anchor_box, i, 0,
                                    Rat(w_cnt, 1), Rat(h_cnt, 1))
         IN IF h_cnt + 1 = grid_num
            THEN decode_cells_by_column(done, grid_num, anchor_box, i + 18, w_cnt + 1, 0)
            ELSE decode_cells_by_column(done, grid_num, anchor_box, i + 18, w_cnt, h_cnt + 1)

\* `for i in (0..grid_num * grid_num * 18).step_by(18)` from i on
RECURSIVE decode_cells(_, _, _, _, _, _)
decode_cells(reshape, grid_num, anchor_box, i, w_cnt, h_cnt) ==
    IF i >= grid_num * grid_num * 18 THEN reshape
    ELSE LET done == decode_anchors(reshape, Rat(416, grid_num), anchor_box, i, 0,
                                    Rat(w_cnt, 1), Rat(h_cnt, 1))
         IN IF w_cnt + 1 = grid_num
            THEN decode_cells(done, grid_num, anchor_box, i + 18, 0, h_cnt + 1)
            ELSE decode_cells(done, grid_num, anchor_box, i + 18, w_cnt + 1, h_cnt)

\* get_anchor_box counting the rows first
get_anchor_box_by_column(reshape, grid_num, anchor_box) ==
    decode_cells_by_column(reshape, grid_num, anchor_box, 0, 0, 0)

\* postprocess::get_anchor_box
get_anchor_box(reshape, grid_num, anchor_box) ==
    decode_cells(reshape, grid_num, anchor_box, 0, 0, 0)

\* utils::post_process, anchor decode: the slots i .. i+3, i+6 .. i+9 and
\* i+12 .. i+15 of a cell, written out anchor by anchor
utils_decode_cell(reshape, grid_width, anchor_box, i, w_cnt, h_cnt) ==
    [n \in 1 .. Len(reshape) |->
        IF n - 1 \in {i, i + 6, i + 12}
        THEN RAdd(RMul(grid_width, w_cnt), RMul(grid_width, reshape[n]))
        ELSE IF n - 1 \in {i + 1, i + 7, i + 13}
        THEN RAdd(RMul(grid_width, h_cnt), RMul(grid_width, reshape[n]))
        ELSE IF n - 1 \in {i + 2, i + 8, i + 14}
        THEN TimesExp(anchor_box[((n - 1 - i) \div 6) + 1][1], reshape[n])
        ELSE IF n - 1 \in {i + 3, i + 9, i + 15}
        THEN TimesExp(anchor_box[((n - 1 - i) \div 6) + 1][2], reshape[n])
        ELSE reshape[n]]

RECURSIVE utils_decode_cells(_, _, _, _, _, _)
utils_decode_cells(reshape, grid, anchor_box, i, w_cnt, h_cnt) ==
    IF i >= grid * grid * 18 THEN reshape
    ELSE LET done == utils_decode_cell(reshape, Rat(416, grid), anchor_box, i,
                                       Rat(w_cnt, 1), Rat(h_cnt, 1))
         IN IF w_cnt + 1 = grid
            THEN utils_decode_cells(done, grid, anchor_box, i + 18, 0, h_cnt + 1)
            ELSE utils_decode_cells(done, grid, anchor_box, i + 18, w_cnt + 1, h_cnt)

InitAnchor ==
    /\ ControllerUnused
    /\ pc = "call"
    /\ ret = <<>>
    /\ \E grid_num \in 1 .. MaxGrid, base \in -MaxRaw .. MaxRaw :
          \E anchor_box \in {anchor_box_13, anchor_box_26} :
              args = [reshape |-> [n \in 1 .. grid_num * grid_num * 18 |-> Rat(base + n, 256)],
                      grid_num |-> grid_num, anchor_box |-> anchor_box]

\* get_anchor_box(&mut reshape, grid_num, anchor_box)
GetAnchorBoxCall ==
    /\ pc = "call"
    /\ ret' = [fn |-> "postprocess",
               out |-> get_anchor_box(args.reshape, args.grid_num, args.anchor_box)]
    /\ pc' = "returned"
    /\ UNCHANGED <<ctl, args>>

\* the anchor decode of utils::post_process
UtilsAnchorDecodeCall ==
    /\ pc = "call"
    /\ ret' = [fn |-> "utils",
               out |-> utils_decode_cells(args.reshape, args.grid_num, args.anchor_box, 0, 0, 0)]
    /\ pc' = "returned"
    /\ UNCHANGED <<ctl, args>>

NextAnchor ==
    \/ GetAnchorBoxCall
    \/ UtilsAnchorDecodeCall

SpecAnchor == InitAnchor /\ [][NextAnchor]_vars

----------------------------------------------------------------------------
(* C30: the decode takes the cells in row-major order: for the cell i it    *)
(* uses w_cnt = i mod grid_num and h_cnt = i div grid_num, and for the      *)
(* anchor k rewrites the slots 6k .. 6k+3 of the cell's record as           *)
(* cx = grid_width * (w_cnt + raw_x), cy = grid_width * (h_cnt + raw_y),    *)
(* w = anchor_w[k] * exp(raw_w), h = anchor_h[k] * exp(raw_h), and leaves   *)
(* the slots 6k+4 and 6k+5 as they were.                                    *)
C30_AnchorDecode ==
    pc = "returned" =>
        /\ Len(ret.out) = Len(args.reshape)
        /\ \A i \in 0 .. args.grid_num * args.grid_num - 1 : \A k \in 0 .. 2 :
              LET slot == 18 * i + 6 * k
                  grid_width == Rat(416, args.grid_num)
                  w_cnt == Rat(i % args.grid_num, 1)
                  h_cnt == Rat(i \div args.grid_num, 1)
              IN /\ ret.out[slot + 1] = RMul(grid_width, RAdd(w_cnt, args.reshape[slot + 1]))
                 /\ ret.out[slot + 2] = RMul(grid_width, RAdd(h_cnt, args.reshape[slot + 2]))
                 /\ ret.out[slot + 3] = TimesExp(args.anchor_box[k + 1][1], args.reshape[slot + 3])
                 /\ ret.out[slot + 4] = TimesExp(args.anchor_box[k + 1][2], args.reshape[slot + 4])
                 /\ ret.out[slot + 5] = args.reshape[slot + 5]
                 /\ ret.out[slot + 6] = args.reshape[slot + 6]

C30_Witness ==
    /\ pc = "returned"
    /\ ret.fn = "postprocess"
    /\ args.grid_num = 2
    /\ args.anchor_box = anchor_box_26
    /\ args.reshape[1] = Rat(1, 256)
    /\ ret.out[2 * 18 + 6 + 1] = RMul(<<208, 1>>, Rat(43, 256))
    /\ ret.out[2 * 18 + 6 + 2] = RAdd(<<208, 1>>, RMul(<<208, 1>>, Rat(44, 256)))
    /\ ret.out[2 * 18 + 6 + 3] = TimesExp(37, Rat(45, 256))
    /\ ret.out[2 * 18 + 6 + 5] = Rat(47, 256)

----------------------------------------------------------------------------
(* new_from_yolo, get_objs and the box assembly of utils::post_process      *)
(*                                                                          *)
(* Coordinates are whole pixels and the widths and heights handed in are    *)
(* even, so that cw / 2. is exact; the objectness is in tenths, as the      *)
(* confidences of nms_process are.                                          *)

\* the candidates handed to get_objs at once
MaxCands == 2

\* the records <<cx, cy, cw, ch, objectness>> of the candidates: boxes that
\* touch the borders 0 and 416, boxes one step outside each border, two that
\* overlap, and one of low objectness
CandidateRecords ==
    {<<4, 4, 8, 8, 9>>, <<412, 412, 8, 8, 9>>, <<4, 4, 12, 8, 9>>, <<412, 200, 12, 8, 9>>,
     <<200, 4, 8, 12, 9>>, <<200, 412, 8, 12, 9>>, <<6, 4, 8, 8, 7>>, <<100, 100, 8, 8, 1>>}

\* cls_num of the candidates, and the scores of their classes
CandClsNum == 2
CandClassScores == {-1, 256}

\* the range check of new_from_yolo
InRange(nms_box) ==
    /\ 0 <= nms_box.x1 /\ nms_box.x1 <= 416
    /\ 0 <= nms_box.y1 /\ nms_box.y1 <= 416
    /\ 0 <= nms_box.x2 /\ nms_box.x2 <= 416
    /\ 0 <= nms_box.y2 /\ nms_box.y2 <= 416

\* the box of the record yolo_result and the class cls_id
NmsBox(yolo_result, cls_id) ==
    LET cx == yolo_result[1]
        cy == yolo_result[2]
        cw == yolo_result[3]
        ch == yolo_result[4]
    IN [class |-> cls_id, x1 |-> cx - cw \div 2, y1 |-> cy - ch \div 2, x2 |-> cx + cw \div 2,
        y2 |-> cy + ch \div 2, confidence |-> yolo_result[5]]

\* new_from_yolo refusing a box on the border 416
new_from_yolo_below(yolo_result, cls_id) ==
    LET nms_box == NmsBox(yolo_result, cls_id)
    IN IF InRange(nms_box) /\ nms_box.x2 < 416 /\ nms_box.y2 < 416
       THEN Ok(nms_box) ELSE Err("nms_box out of range")

\* DetectionData::new_from_yolo
new_from_yolo(yolo_result, cls_id) ==
    LET nms_box == NmsBox(yolo_result, cls_id)
    IN IF InRange(nms_box) THEN Ok(nms_box) ELSE Err("nms_box out of range")

\* .chunks(18 / ANCHOR_BOX_NUM): the chunk idx
Chunk(grid_concat, idx) ==
    SubSeq(grid_concat, idx * (18 \div ANCHOR_BOX_NUM) + 1, (idx + 1) * (18 \div ANCHOR_BOX_NUM))

\* .enumerate().flat_map(..).collect() from the chunk idx on: an Err gives no element
RECURSIVE get_objs_from(_, _, _, _)
get_objs_from(grid_concat, cls_concat, cls_num, idx) ==
    IF idx * (18 \div ANCHOR_BOX_NUM) >= Len(grid_concat) THEN <<>>
    ELSE LET r == new_from_yolo(Chunk(grid_concat, idx), get_cls_id(cls_concat, idx, cls_num))
         IN (IF r.tag = "ok" THEN <<r.val>> ELSE <<>>)
                \o get_objs_from(grid_concat, cls_concat, cls_num, idx + 1)

\* postprocess::get_objs, the array holding Len(grid_concat) \div 6 candidates
\* in place of the (13 * 13 + 26 * 26) * 3 of the two grids
get_objs(grid_concat, cls_concat, cls_num) == get_objs_from(grid_concat, cls_concat, cls_num, 0)

\* utils::post_process, `for i in 0..(grid_13 * grid_13 + grid_26 * grid_26) * anchor_box_num`
\* from i on: nms_boxes
RECURSIVE utils_boxes_from(_, _, _, _, _)
utils_boxes_from(grid13and26_array, grid13and26_array_class, cls_num, i, cnt_cls) ==
    IF i * (18 \div ANCHOR_BOX_NUM) >= Len(grid13and26_array) THEN <<>>
    ELSE LET max_class_id == utils_max_class_id(grid13and26_array_class, cnt_cls, cls_num)
             nms_box == NmsBox(Chunk(grid13and26_array, i), max_class_id)
         IN IF max_class_id = -1
            THEN utils_boxes_from(grid13and26_array, grid13and26_array_class, cls_num, i + 1, cnt_cls)
            ELSE (IF InRange(nms_box) THEN <<nms_box>> ELSE <<>>)
                     \o utils_boxes_from(grid13and26_array, grid13and26_array_class, cls_num,
                                         i + 1, cnt_cls + cls_num)

\* the flat arrays of n candidates
RECURSIVE CandidateArrays(_)
CandidateArrays(n) ==
    IF n = 0 THEN {<<>>}
    ELSE {a \o <<b[1], b[2], b[3], b[4], b[5], 0>> :
              a \in CandidateArrays(n - 1), b \in CandidateRecords}

RECURSIVE CandidateClasses(_)
CandidateClasses(n) ==
    IF n = 0 THEN {<<>>}
    ELSE {Append(a, v) : a \in CandidateClasses(n - 1), v \in CandClassScores}

InitObjs ==
    /\ ControllerUnused
    /\ pc = "call"
    /\ ret = <<>>
    /\ \E grid_concat \in CandidateArrays(MaxCands) :
          \E cls_concat \in CandidateClasses(MaxCands * CandClsNum) :
              \E ot \in ObjThresholds, nt \in NmsThresholds :
                  args = [grid_concat |-> grid_concat, cls_concat |-> cls_concat,
                          cls_num |-> CandClsNum, obj_threshold |-> ot, nms_threshold |-> nt]

\* the end of postprocess::post_process: get_objs, then nms_process
GetObjsCall ==
    /\ pc = "call"
    /\ LET nms_boxes == get_objs(args.grid_concat, args.cls_concat, args.cls_num)
       IN ret' = [fn |-> "postprocess", nms_boxes |-> nms_boxes,
                  out |-> nms_process(nms_boxes, args.cls_num, args.obj_threshold,
                                      args.nms_threshold)]
    /\ pc' = "returned"
    /\ UNCHANGED <<ctl, args>>

\* the end of utils::post_process: the box assembly, then nms_process
UtilsBoxesCall ==
    /\ pc = "call"
    /\ LET nms_boxes == utils_boxes_from(args.grid_concat, args.cls_concat, args.cls_num, 0, 0)
       IN ret' = [fn |-> "utils", nms_boxes |-> nms_boxes,
                  out |-> utils_nms_process(nms_boxes, args.cls_num, args.obj_threshold,
                                            args.nms_threshold)]
    /\ pc' = "returned"
    /\ UNCHANGED <<ctl, args>>

NextObjs ==
    \/ GetObjsCall
    \/ UtilsBoxesCall

SpecObjs == InitObjs /\ [][NextObjs]_vars

----------------------------------------------------------------------------
\* the corners and the confidence of a box
Placed(d) == <<d.x1, d.y1, d.x2, d.y2, d.confidence>>

\* the corners cx -+ w/2, cy -+ h/2 and the objectness of the candidate idx
CandidatePlaced(idx) ==
    LET r == Chunk(args.grid_concat, idx)
    IN <<r[1] - r[3] \div 2, r[2] - r[4] \div 2, r[1] + r[3] \div 2, r[2] + r[4] \div 2, r[5]>>

Candidates == 0 .. (Len(args.grid_concat) \div 6) - 1

CandidateInRange(idx) == \A n \in 1 .. 4 : 0 <= CandidatePlaced(idx)[n] /\ CandidatePlaced(idx)[n] <= 416

\* the candidates of the set S in range, in order, from idx on
RECURSIVE KeptFrom(_, _)
KeptFrom(S, idx) ==
    IF idx \notin Candidates THEN <<>>
    ELSE (IF idx \in S /\ CandidateInRange(idx) THEN <<CandidatePlaced(idx)>> ELSE <<>>)
             \o KeptFrom(S, idx + 1)

\* every candidate has a class score within [0, 1], so that the class loop of
\* utils::post_process skips none
AllClassed ==
    \A idx \in Candidates : \E j \in 1 .. args.cls_num :
        LET t == args.cls_concat[idx * args.cls_num + j] IN 0 <= t /\ t <= 256

(* C24: a candidate is returned by new_from_yolo and reaches NMS if and     *)
(* only if x1 = cx - w/2, y1 = cy - h/2, x2 = cx + w/2, y2 = cy + h/2 all   *)
(* lie in [0, 416]; any other candidate is dropped and the candidates after *)
(* it are still processed; every box of the post_process result has its     *)
(* four coordinates in [0, 416] and the objectness of its candidate as      *)
(* confidence. In utils::post_process the same holds of the candidates that *)
(* reach the box assembly.                                                  *)
C24_RangeFilter ==
    pc = "returned" =>
        LET reached == [n \in 1 .. Len(ret.nms_boxes) |-> Placed(ret.nms_boxes[n])]
        IN /\ ret.fn = "postprocess" => reached = KeptFrom(Candidates, 0)
           /\ (ret.fn = "utils" /\ AllClassed) => reached = KeptFrom(Candidates, 0)
           /\ ret.fn = "utils" =>
                 \E S \in SUBSET Candidates : reached = KeptFrom(S, 0)
           /\ \A n \in 1 .. Len(ret.out) :
                 /\ InRange(ret.out[n])
                 /\ \E m \in 1 .. Len(ret.nms_boxes) : ret.out[n] = ret.nms_boxes[m]

C24_Witness ==
    /\ pc = "returned"
    /\ ret.fn = "postprocess"
    /\ Chunk(args.grid_concat, 0) = <<4, 4, 12, 8, 9, 0>>
    /\ Chunk(args.grid_concat, 1) = <<412, 412, 8, 8, 9, 0>>
    /\ Len(ret.nms_boxes) = 1
    /\ Placed(ret.nms_boxes[1]) = <<408, 408, 416, 416, 9>>
    /\ ret.out = ret.nms_boxes

----------------------------------------------------------------------------
(* letterbox, reverse_transform and point_reverse_transform                 *)

\* the sizes <<width, height>> of the original image
ImageSizes ==
    {<<640, 480>>, <<480, 640>>, <<416, 416>>, <<1280, 720>>, <<1000, 999>>, <<999, 1000>>,
     <<3, 2>>, <<1, 1000>>}

RotateAngles == {0, 90, 180, 270}

\* the corners <<x1, y1, x2, y2>> of the boxes in the 416x416 space
YoloCorners == {<<0, 0, 416, 416>>, <<52, 0, 364, 416>>, <<0, 52, 416, 364>>, <<100, 200, 300, 250>>}

\* an original point is taken at the fractions 0, 1/Parts, .. 1 of the width
\* and of the height
Parts == 2

yolo_input_size == 416

\* f64::round of a quotient that is not negative
Round(q) == (2 * q[1] + q[2]) \div (2 * q[2])

\* DynamicImage::resize(size, size, ..) of the image crate: the size of the
\* resized image, the aspect ratio kept and the sides rounded
resize_dimensions(width, height, size) ==
    LET ratio == RMin(Rat(size, width), Rat(size, height))
        nw == Max(Round(RMul(Rat(width, 1), ratio)), 1)
        nh == Max(Round(RMul(Rat(height, 1), ratio)), 1)
    IN <<nw, nh>>

\* rotate_img: the size of the rotated image
rotate_img(dims, angle) == IF angle \in {90, 270} THEN <<dims[2], dims[1]>> ELSE dims

\* letterbox: <<pad_w, pad_h>>
letterbox_pads(width, height, size, rotate_angle) ==
    LET rotated == rotate_img(resize_dimensions(width, height, size), rotate_angle)
    IN <<Abs(rotated[1] - size) \div 2, Abs(rotated[2] - size) \div 2>>

\* where letterbox puts the point <<x, y>> of the original image, not rotated:
\* scaled by the ratio of the resize, then moved by the padding of place_pixels
letterbox_point(width, height, size, p) ==
    LET ratio == RMin(Rat(size, width), Rat(size, height))
        pads == letterbox_pads(width, height, size, 0)
    IN <<RAdd(RMul(p[1], ratio), Rat(pads[1], 1)), RAdd(RMul(p[2], ratio), Rat(pads[2], 1))>>

\* point_reverse_transform taking the padding of the width for both axes
point_reverse_transform_one_pad(width, height, rotate_angle, x, y) ==
    LET wh == IF rotate_angle \in {90, 270} THEN <<height, width>> ELSE <<width, height>>
        ratio == RMin(Rat(yolo_input_size, wh[1]), Rat(yolo_input_size, wh[2]))
        nw == RMul(Rat(wh[1], 1), ratio)
        pad_w == RDiv(RSub(Rat(yolo_input_size, 1), nw), <<2, 1>>)
    IN <<RDiv(RSub(x, pad_w), ratio), RDiv(RSub(y, pad_w), ratio)>>

\* detection_result::point_reverse_transform
point_reverse_transform(width, height, rotate_angle, x, y) ==
    LET wh == IF rotate_angle \in {90, 270} THEN <<height, width>> ELSE <<width, height>>
        w == wh[1]
        h == wh[2]
        wratio == Rat(yolo_input_size, w)
        hratio == Rat(yolo_input_size, h)
        ratio == RMin(wratio, hratio)
        nw == RMul(Rat(w, 1), ratio)
        nh == RMul(Rat(h, 1), ratio)
        pad_w == RDiv(RSub(Rat(yolo_input_size, 1), nw), <<2, 1>>)
        pad_h == RDiv(RSub(Rat(yolo_input_size, 1), nh), <<2, 1>>)
    IN <<RDiv(RSub(x, pad_w), ratio), RDiv(RSub(y, pad_h), ratio)>>

\* utils::point_reverse_transform
utils_point_reverse_transform(width, height, rotate_angle, x, y) ==
    LET wh == IF rotate_angle \in {90, 270} THEN <<height, width>> ELSE <<width, height>>
        w == wh[1]
        h == wh[2]
        wratio == Rat(yolo_input_size, w)
        hratio == Rat(yolo_input_size, h)
        ratio == RMin(wratio, hratio)
        nw == RMax(RMul(Rat(width, 1), ratio), <<1, 1>>)
        nh == RMax(RMul(Rat(height, 1), ratio), <<1, 1>>)
        pad_w == RDiv(RAbs(RSub(nw, Rat(yolo_input_size, 1))), <<2, 1>>)
        pad_h == RDiv(RAbs(RSub(nh, Rat(yolo_input_size, 1))), <<2, 1>>)
    IN <<RDiv(RSub(x, pad_w), ratio), RDiv(RSub(y, pad_h), ratio)>>

\* DetectionData::reverse_transform
reverse_transform(self, width, height, rotate_angle) ==
    LET p1 == point_reverse_transform(width, height, rotate_angle, self.x1, self.y1)
        p2 == point_reverse_transform(width, height, rotate_angle, self.x2, self.y2)
    IN [self EXCEPT !.x1 = p1[1], !.y1 = p1[2], !.x2 = p2[1], !.y2 = p2[2]]

\* utils::reverse_transform
utils_reverse_transform(width, height, rotate_angle, d_result) ==
    [n \in 1 .. Len(d_result) |->
        LET d == d_result[n]
            p1 == utils_point_reverse_transform(width, height, rotate_angle, d.x1, d.y1)
            p2 == utils_point_reverse_transform(width, height, rotate_angle, d.x2, d.y2)
        IN [d EXCEPT !.x1 = p1[1], !.y1 = p1[2], !.x2 = p2[1], !.y2 = p2[2]]]

InitRev ==
    /\ ControllerUnused
    /\ pc = "call"
    /\ ret = <<>>
    /\ \E size \in ImageSizes, angle \in RotateAngles, c \in YoloCorners, class \in BoxClasses :
          args = [width |-> size[1], height |-> size[2], rotate_angle |-> angle,
                  d |-> DetectionData(class, <<Rat(c[1], 1), Rat(c[2], 1), Rat(c[3], 1), Rat(c[4], 1)>>, 9),
                  orig |-> None]

\* a box of the original image, not rotated, is followed through letterbox:
\* its corner <<x, y>> and the corner <<width, height>> of the image
LetterboxBox ==
    /\ pc = "call"
    /\ args.rotate_angle = 0
    /\ \E fx \in 0 .. Parts, fy \in 0 .. Parts :
          LET p1 == <<Rat(args.width * fx, Parts), Rat(args.height * fy, Parts)>>
              p2 == <<Rat(args.width, 1), Rat(args.height, 1)>>
              q1 == letterbox_point(args.width, args.height, yolo_input_size, p1)
              q2 == letterbox_point(args.width, args.height, yolo_input_size, p2)
          IN args' = [args EXCEPT !.d = DetectionData(args.d.class, <<q1[1], q1[2], q2[1], q2[2]>>, 9),
                                  !.orig = Some(<<p1[1], p1[2], p2[1], p2[2]>>)]
    /\ pc' = "letterboxed"
    /\ UNCHANGED <<ctl, ret>>

\* d.reverse_transform(width, height, rotate_angle)
ReverseTransformCall ==
    /\ pc \in {"call", "letterboxed"}
    /\ ret' = [fn |-> "detection_result",
               out |-> reverse_transform(args.d, args.width, args.height, args.rotate_angle)]
    /\ pc' = "returned"
    /\ UNCHANGED <<ctl, args>>

\* utils::reverse_transform(width, height, rotate_angle, &[d])
UtilsReverseTransformCall ==
    /\ pc \in {"call", "letterboxed"}
    /\ ret' = [fn |-> "utils",
               out |-> utils_reverse_transform(args.width, args.height, args.rotate_angle,
                                               <<args.d>>)[1]]
    /\ pc' = "returned"
    /\ UNCHANGED <<ctl, args>>

NextRev ==
    \/ LetterboxBox
    \/ ReverseTransformCall
    \/ UtilsReverseTransformCall

SpecRev == InitRev /\ [][NextRev]_vars

----------------------------------------------------------------------------
\* what counts as equal up to the rounding of f32: a thousandth of a pixel
Tolerance == <<1, 1000>>

\* the ratio of the resize, rotate_angle being 0
LetterboxRatio == RMin(Rat(yolo_input_size, args.width), Rat(yolo_input_size, args.height))

\* the box has gone through letterbox and back through reverse_transform
RoundTrip == pc = "returned" /\ IsSome(args.orig) /\ args.rotate_angle = 0

\* how far the four coordinates returned are from the original ones
Displacement ==
    LET o == Unwrap(args.orig)
    IN <<RAbs(RSub(ret.out.x1, o[1])), RAbs(RSub(ret.out.y1, o[2])),
         RAbs(RSub(ret.out.x2, o[3])), RAbs(RSub(ret.out.y2, o[4]))>>

\* the resized image has whole sides and the padding of letterbox is half of
\* what is left on both axes
PaddingExact ==
    LET nw == RMul(Rat(args.width, 1), LetterboxRatio)
        nh == RMul(Rat(args.height, 1), LetterboxRatio)
    IN /\ nw[2] = 1 /\ (yolo_input_size - nw[1]) % 2 = 0
       /\ nh[2] = 1 /\ (yolo_input_size - nh[1]) % 2 = 0

(* C27 as claimed: at rotate_angle = 0 a point of the original image, taken *)
(* into the 416x416 space with the ratio min(416/width, 416/height) and the *)
(* padding of letterbox, comes back from point_reverse_transform as the     *)
(* original point, within the tolerance of the floating-point arithmetic.   *)
C27_AsClaimed ==
    RoundTrip => \A n \in 1 .. 4 : RLe(Displacement[n], Tolerance)

(* C27 amended: the point comes back displaced by the difference between    *)
(* the padding of letterbox, a whole number of pixels of the rounded        *)
(* resized image, and the padding (416 - side * ratio) / 2 of the reverse   *)
(* transform: by less than one pixel of the 416x416 space, that is less     *)
(* than 1 / ratio pixels of the original image, and by nothing when both    *)
(* resized sides are whole and leave an even rest.                          *)
C27_RoundTrip ==
    RoundTrip =>
        /\ \A n \in 1 .. 4 :
              /\ RLe(RMul(Displacement[n], LetterboxRatio), <<1, 1>>)
              /\ RMul(Displacement[n], LetterboxRatio) # <<1, 1>>
        /\ PaddingExact => \A n \in 1 .. 4 : Displacement[n] = <<0, 1>>

C27_Witness ==
    /\ RoundTrip
    /\ ret.fn = "detection_result"
    /\ args.width = 1000
    /\ args.height = 999
    /\ Unwrap(args.orig)[4] = <<999, 1>>
    /\ ret.out.y2 = <<1997, 2>>
    /\ ret.out.x2 = <<1000, 1>>

----------------------------------------------------------------------------
\* the point the claim gives for <<x, y>>
ClaimedPoint(x, y) ==
    LET w == IF args.rotate_angle \in {90, 270} THEN args.height ELSE args.width
        h == IF args.rotate_angle \in {90, 270} THEN args.width ELSE args.height
        ratio == RMin(Rat(416, w), Rat(416, h))
        pad_w == RDiv(RSub(<<416, 1>>, RMul(Rat(w, 1), ratio)), <<2, 1>>)
        pad_h == RDiv(RSub(<<416, 1>>, RMul(Rat(h, 1), ratio)), <<2, 1>>)
    IN <<RDiv(RSub(x, pad_w), ratio), RDiv(RSub(y, pad_h), ratio)>>

(* C29 as claimed: point_reverse_transform returns ((x - pad_w) / ratio,    *)
(* (y - pad_h) / ratio) with (w, h) = (height, width) for rotate_angle 90   *)
(* and 270 and (width, height) otherwise, ratio = min(416/w, 416/h),        *)
(* pad_w = (416 - w*ratio)/2 and pad_h = (416 - h*ratio)/2; reverse_        *)
(* transform applies it to both corners and keeps class and confidence; so  *)
(* for every rotate_angle, in detection_result.rs and in utils.rs.          *)
C29_AsClaimed ==
    pc = "returned" =>
        /\ <<ret.out.x1, ret.out.y1>> = ClaimedPoint(args.d.x1, args.d.y1)
        /\ <<ret.out.x2, ret.out.y2>> = ClaimedPoint(args.d.x2, args.d.y2)
        /\ ret.out.class = args.d.class
        /\ ret.out.confidence = args.d.confidence


----------------------------------------------------------------------------
(* wait_ips and wait_acc_ip: the done flag a sub-pass waits on *)

\* the unit whose done flag the controller is to wait on in a sub-pass of
\* the stage l
ClaimedDone(l, last) ==
    IF ~last THEN "acc"
    ELSE CASE l.post_process_type = "None" -> "acc"
           [] l.post_process_type = "MaxPool" -> "mp"
           [] l.post_process_type = "Yolo" -> "yolo"
           [] l.post_process_type = "Upsample" -> "upsamp"

IsDoneEv(e) == e.op = "done"

\* the done flags observed since the sub-pass was configured
DoneLog == SelectSeq(log, IsDoneEv)

Waiting == pc \in {"wait_ips", "wait_acc"}

\* the read-back of the sub-pass is the last call made
ReadBackLast(kind) ==
    /\ Len(log) > 0
    /\ log[Len(log)].op = "read"
    /\ log[Len(log)].unit = "dma0"
    /\ log[Len(log)].kind = kind

\* C28: the last sub-pass of an output fold waits on the one done flag its
\* post-process type names (None: the accumulator), every other sub-pass on
\* the accumulator's; the wait starts right after the read-back of the
\* sub-pass, polls no other unit, and the next sub-pass is configured only
\* once that flag has been seen set
C28_WaitOnDone ==
    /\ [](/\ pc = "wait_ips" => is_last_input_ch /\ ReadBackLast("output")
          /\ pc = "wait_acc" => ~is_last_input_ch /\ ReadBackLast("acc_out")
          /\ InSubPass => DoneLog = <<>>
          /\ (InStage /\ pc = "configure" /\ npass > 0) =>
                /\ Len(DoneLog) = 1
                /\ IsDoneEv(log[Len(log)]))
    /\ [][Waiting =>
            IF pc' = pc
            THEN log' = log
            ELSE /\ log' = Append(log, DoneEv(ClaimedDone(L, is_last_input_ch)))
                 /\ pc' \in {"configure", "rewire"}]_vars

\* the last sub-pass of an upsample stage has seen the upsample unit done
C28_Witness ==
    /\ pc = "rewire"
    /\ L.post_process_type = "Upsample"
    /\ Len(log) > 1
    /\ log[Len(log)] = DoneEv("upsamp")
    /\ log[Len(log) - 1].op = "read"
    /\ log[Len(log) - 1].kind = "output"


----------------------------------------------------------------------------
(* The camera loader of examples/cam.rs: one caller that owns the          *)
(* CamImgLoader and the worker thread CamImgLoader::new spawns.  args is   *)
(* the loader, its two channels and the worker; ret is what the last call  *)
(* on the loader returned; pc is the position of the caller.               *)

\* the calls of receive() the caller makes
MaxReceives == 3

\* the loader CamImgLoader::new returns, the worker spawned and not yet run
cam_img_loader_new ==
    [thread_handle |-> Some("worker"),  \* Option<JoinHandle<()>>
     cmd |-> <<>>,                      \* the messages in the command channel
     cmd_tx |-> TRUE,                   \* the loader's sender is alive
     cmd_rx |-> TRUE,                   \* the worker's receiver is alive
     frames |-> <<>>,                   \* the images in the data channel
     cam_img_tx |-> TRUE,               \* the worker's sender is alive
     cam_img_rx |-> TRUE,               \* the loader's receiver is alive
     worker |-> "open",                 \* the position of run_cam_thread
     exit |-> "",                       \* what run_cam_thread returned
     spawned |-> 1,                     \* the calls of thread::spawn
     joined |-> FALSE,                  \* JoinHandle::join has returned
     in_drop |-> FALSE,                 \* stop is running inside Drop::drop
     receives |-> 0,                    \* the calls of receive()
     consumed |-> 0,                    \* the "start" messages the worker took
     sent |-> 0]                        \* the images the worker sent

InitCam ==
    /\ ControllerUnused
    /\ pc = "idle"
    /\ args = cam_img_loader_new
    /\ ret = [fn |-> "new", out |-> Ok(<<>>)]

\* a call on the loader returns r to the caller
CamReturn(fn, r) == ret' = [fn |-> fn, out |-> r]

\* run_cam_thread returns: cmd_rx and cam_img_tx are dropped with it
worker_return(a, res) ==
    [a EXCEPT !.worker = "returned", !.exit = res, !.cmd_rx = FALSE, !.cam_img_tx = FALSE]

\* Device::new, format, set_format and Stream::with_buffers, each with `?`
WorkerOpen ==
    /\ args.worker = "open"
    /\ \E ok \in BOOLEAN :
          args' = IF ok THEN [args EXCEPT !.worker = "capture"] ELSE worker_return(args, "err")
    /\ UNCHANGED <<ctl, pc, ret>>

\* CaptureStream::next and image::load_from_memory, each with `?`
WorkerCapture ==
    /\ args.worker = "capture"
    /\ \E ok \in BOOLEAN :
          args' = IF ok THEN [args EXCEPT !.worker = "try_recv"] ELSE worker_return(args, "err")
    /\ UNCHANGED <<ctl, pc, ret>>

\* `if let Ok(msg) = cmd_rx.try_recv()`: "stop" breaks the loop, every other
\* message goes on to send the image; without a message the loop goes round
WorkerTryRecv ==
    /\ args.worker = "try_recv"
    /\ args' = IF args.cmd = <<>>
               THEN [args EXCEPT !.worker = "capture"]
               ELSE IF Head(args.cmd) = "stop"
                    THEN worker_return([args EXCEPT !.cmd = Tail(args.cmd)], "ok")
                    ELSE [args EXCEPT !.cmd = Tail(args.cmd), !.worker = "send",
                                      !.consumed = args.consumed + 1]
    /\ UNCHANGED <<ctl, pc, ret>>

\* the worker sending the image twice
WorkerSendTwice ==
    /\ args.worker = "send"
    /\ args' = IF ~args.cam_img_rx
               THEN worker_return(args, "err")
               ELSE [args EXCEPT !.frames = args.frames \o <<"img", "img">>,
                                 !.sent = args.sent + 2, !.worker = "capture"]
    /\ UNCHANGED <<ctl, pc, ret>>

\* `cam_img_tx.send(img)?`, then thread::yield_now and the next round
WorkerSend ==
    /\ args.worker = "send"
    /\ args' = IF ~args.cam_img_rx
               THEN worker_return(args, "err")
               ELSE [args EXCEPT !.frames = Append(args.frames, "img"),
                                 !.sent = args.sent + 1, !.worker = "capture"]
    /\ UNCHANGED <<ctl, pc, ret>>

\* receive(): `self.start()?`, which sends "start" while the handle is held
ReceiveStart ==
    /\ pc = "idle"
    /\ args.receives < MaxReceives
    /\ IF IsSome(args.thread_handle) /\ ~args.cmd_rx
       THEN /\ pc' = "idle"
            /\ args' = [args EXCEPT !.receives = args.receives + 1]
            /\ CamReturn("receive", Err("send"))
       ELSE /\ pc' = "recv"
            /\ args' = [args EXCEPT !.receives = args.receives + 1,
                                    !.cmd = IF IsSome(args.thread_handle)
                                            THEN Append(args.cmd, "start") ELSE args.cmd]
            /\ ret' = ret
    /\ UNCHANGED ctl

\* receive(): `Ok(self.cam_img_rx.recv()?)`, blocked while the channel is
\* empty and the worker's sender is alive
ReceiveRecv ==
    /\ pc = "recv"
    /\ args.frames # <<>> \/ ~args.cam_img_tx
    /\ pc' = "idle"
    /\ IF args.frames # <<>>
       THEN /\ CamReturn("receive", Ok(Head(args.frames)))
            /\ args' = [args EXCEPT !.frames = Tail(args.frames)]
       ELSE /\ CamReturn("receive", Err("recv"))
            /\ args' = args
    /\ UNCHANGED ctl

\* the end of stop(): back in the caller, or in Drop::drop, which then drops
\* the fields of the loader
stop_return(a, r) ==
    /\ CamReturn(IF a.in_drop THEN "drop" ELSE "stop", r)
    /\ pc' = IF a.in_drop THEN "dropped" ELSE "idle"
    /\ args' = IF a.in_drop
               THEN [a EXCEPT !.cmd_tx = FALSE, !.cam_img_rx = FALSE, !.thread_handle = None]
               ELSE a

\* stop() up to the join: `self.cmd_tx.send("stop")?` and thread_handle.take()
stop_send(a) ==
    IF IsNone(a.thread_handle)
    THEN stop_return(a, Ok(<<>>))
    ELSE IF ~a.cmd_rx
         THEN stop_return(a, Err("send"))
         ELSE /\ args' = [a EXCEPT !.cmd = Append(a.cmd, "stop"), !.thread_handle = None]
              /\ pc' = "join"
              /\ ret' = ret

\* the caller calls stop()
Stop ==
    /\ pc = "idle"
    /\ stop_send(args)
    /\ UNCHANGED ctl

\* the loader goes out of scope: `let _ = self.stop()`
DropLoader ==
    /\ pc = "idle"
    /\ stop_send([args EXCEPT !.in_drop = TRUE])
    /\ UNCHANGED ctl

\* stop(): `.join()`, which returns once the worker thread has ended
StopJoin ==
    /\ pc = "join"
    /\ args.worker = "returned"
    /\ stop_return([args EXCEPT !.joined = TRUE], Ok(<<>>))
    /\ UNCHANGED ctl

NextCam ==
    \/ WorkerOpen
    \/ WorkerCapture
    \/ WorkerTryRecv
    \/ WorkerSend
    \/ ReceiveStart
    \/ ReceiveRecv
    \/ Stop
    \/ DropLoader
    \/ StopJoin

SpecCam == InitCam /\ [][NextCam]_vars


----------------------------------------------------------------------------
(* The camera loader: frames per "start", and stop *)

\* the "start" messages taken whose image has not been sent yet
StartsInHand == IF args.worker = "send" THEN 1 ELSE 0

\* one image for each "start" taken and none otherwise, at most one image in
\* the data channel, one worker
OneFramePerStart ==
    /\ args.sent + StartsInHand = args.consumed
    /\ Len(args.frames) <= 1
    /\ args.consumed <= args.receives
    /\ args.spawned = 1

\* receive() has returned an image
ReceivedFrame == ret.fn = "receive" /\ ret.out = Ok("img")

\* C25 as stated: one image per "start" consumed, at most one undelivered
\* image, one worker, and every receive() returns exactly one image
C25_AsClaimed ==
    /\ OneFramePerStart
    /\ ret.fn = "receive" => ReceivedFrame

\* C25: in every interleaving of receive() calls and the worker loop the
\* worker sends exactly one image for each "start" it takes and none
\* otherwise, the data channel never holds more than one undelivered image,
\* there is one worker per loader, and each receive() returns either exactly
\* one image, taken from the channel, or an error, the error only once the
\* worker has returned (device or capture error, or after stop)
C25_OneFramePerStart ==
    /\ [](/\ OneFramePerStart
          /\ ret.fn = "receive" =>
                \/ ReceivedFrame
                \/ ret.out.tag = "err" /\ args.worker = "returned")
    /\ [][/\ args'.sent # args.sent =>
                /\ args.worker = "send"
                /\ args'.sent = args.sent + 1
                /\ args'.frames = Append(args.frames, "img")
          /\ (pc = "recv" /\ pc' = "idle" /\ ret'.out.tag = "ok") =>
                /\ args.frames = <<"img">>
                /\ args'.frames = <<>>]_vars

\* two calls of receive() have each returned the image of their own "start"
C25_Witness ==
    /\ pc = "idle"
    /\ ReceivedFrame
    /\ args.receives = 2
    /\ args.consumed = 2
    /\ args.sent = 2
    /\ args.frames = <<>>

\* C26 as stated: once stop(), or the stop() of Drop, has returned, the worker
\* has been joined and the handle is cleared, whatever the worker did before
C26_AsClaimed ==
    (ret.fn \in {"stop", "drop"} /\ pc \in {"idle", "dropped"}) =>
        /\ IsNone(args.thread_handle)
        /\ args.joined


----------------------------------------------------------------------------
(* nms_process on confidences at and around the two ends of its filter *)

\* the boxes handed to nms_process: how many, and their confidences in tenths
\* (below, at and above obj_threshold, at and above 1.0)
MaxFiltered == 3
FilterConfidences == {1, 2, 3, 10, 11}
FilterCorners == {<<0, 0, 4, 2>>, <<1, 0, 5, 2>>}

\* the lists of at most n such boxes
RECURSIVE FilterLists(_)
FilterLists(n) ==
    IF n = 0 THEN {<<>>}
    ELSE LET shorter == FilterLists(n - 1)
         IN shorter \cup
            {Append(l, DetectionData(c, xy, conf)) :
                l \in {m \in shorter : Len(m) = n - 1},
                c \in BoxClasses, xy \in FilterCorners, conf \in FilterConfidences}

InitFilter ==
    /\ ControllerUnused
    /\ pc = "call"
    /\ ret = <<>>
    /\ \E bb \in FilterLists(MaxFiltered), ot \in ObjThresholds, nt \in NmsThresholds :
          args = [bb |-> bb, cls_num |-> Cardinality(BoxClasses), obj_threshold |-> ot,
                  nms_threshold |-> nt]

SpecFilter == InitFilter /\ [][NextNms]_vars

\* how many times d occurs in s
Occurrences(s, d) == Cardinality({n \in 1 .. Len(s) : s[n] = d})

\* the boxes of class c in s, in the order of s
OfClass(s, c) == SelectSeq(s, LAMBDA d : d.class = c)

\* the boxes of class c of the input that the filter lets through
Admitted(c) ==
    SelectSeq(args.bb, LAMBDA d : /\ d.class = c
                                  /\ d.confidence > args.obj_threshold
                                  /\ d.confidence <= ConfOne)

\* the survivors of class c, by the function that was called
Survivors(c) ==
    IF ret.fn = "nms" THEN nms(Admitted(c), args.nms_threshold)
    ELSE utils_nms(Admitted(c), args.nms_threshold)

\* C31: every box nms_process returns is one of the input boxes, unchanged
\* and no more often than it was handed in, with obj_threshold < confidence
\* <= 1.0; the result is the survivors of class 0, then those of class 1, and
\* so on; a box with confidence <= obj_threshold or > 1.0 is never returned
C31_FilteredSurvivors ==
    pc # "call" =>
        /\ \A n \in 1 .. Len(ret.out) :
              /\ Occurrences(args.bb, ret.out[n]) >= Occurrences(ret.out, ret.out[n])
              /\ ret.out[n].confidence > args.obj_threshold
              /\ ret.out[n].confidence <= ConfOne
              /\ n > 1 => ret.out[n - 1].class <= ret.out[n].class
        /\ \A c \in 0 .. args.cls_num - 1 : OfClass(ret.out, c) = Survivors(c)
        /\ \A n \in 1 .. Len(args.bb) :
              (args.bb[n].confidence <= args.obj_threshold \/ args.bb[n].confidence > ConfOne) =>
                    Occurrences(ret.out, args.bb[n]) = 0

\* a box at confidence 1.0 is returned, next to boxes at obj_threshold and
\* above 1.0 that are not
C31_Witness ==
    /\ pc = "returned"
    /\ ret.fn = "nms"
    /\ Len(args.bb) = 3
    /\ args.bb[1].confidence = args.obj_threshold
    /\ args.bb[2].confidence = ConfOne
    /\ args.bb[3].confidence = ConfOne + 1
    /\ ret.out = <<args.bb[2]>>


----------------------------------------------------------------------------
(* The class scores an anchor slot is classified from *)

\* the class id of the slot idx computed from the scores at the positions
\* [idx * cls_num, (idx + 1) * cls_num) of the class array, as the function
\* that was called computes a class id
ClassOfSlot(idx) ==
    IF ret.fn = "postprocess" THEN get_cls_id(args.cls_concat, idx, args.cls_num)
    ELSE utils_max_class_id(args.cls_concat, idx * args.cls_num, args.cls_num)

\* the boxes of the slots idx, idx + 1, .. when every slot is classified from
\* its own scores: a slot without a class id or out of range gives no box
RECURSIVE BoxesOfSlots(_)
BoxesOfSlots(idx) ==
    IF idx \notin Candidates THEN <<>>
    ELSE (IF ClassOfSlot(idx) # -1 /\ CandidateInRange(idx)
          THEN <<NmsBox(Chunk(args.grid_concat, idx), ClassOfSlot(idx))>> ELSE <<>>)
             \o BoxesOfSlots(idx + 1)

\* C32 as stated: in postprocess::get_objs and in the loop of
\* utils::post_process alike, the class id of every anchor slot is computed
\* from the cls_num scores of that slot, whatever happened to earlier slots
C32_AsClaimed == pc = "returned" => ret.nms_boxes = BoxesOfSlots(0)


----------------------------------------------------------------------------
(* Buffer lengths along the edges of the topology *)

\* the number of elements stage k slices from its input over a forward pass
TotalInput(k) ==
    LG(k).input_size * (IF LG(k).conv_disable THEN LG(k).output_fold_factor
                        ELSE LG(k).input_fold_factor)

\* the stages whose outputs make up the input of stage k, in order
Producers(k) ==
    CASE k = 0 -> <<>>
      [] k = 11 -> <<8>>
      [] k = 12 -> <<11, 4>>
      [] OTHER -> <<k - 1>>

\* the total length of the outputs of the stages of ps
RECURSIVE Produced(_)
Produced(ps) == IF ps = <<>> THEN 0 ELSE TotalOutput(Head(ps)) + Produced(Tail(ps))

\* the input slices of stage k taken so far are all of its input
SlicesInRange(k, n) ==
    \A i \in 0 .. n - 1 : get_inputs(LG(k), inputs[k], i).tag = "ok"

\* C33: with every DMA read returning as many elements as requested, the
\* total output of every producer equals the total input its consumer
\* slices (input_size * input_fold_factor, or input_size *
\* output_fold_factor for the convolution-disabled stage 5), the input of
\* stage 12 is as long as the outputs of stages 11 and 4 together, the
\* external input of 416 * 416 * 4 elements is stage 0's input_size, the
\* two results are 13 * 13 * 256 and 26 * 26 * 256 long, and no input slice
\* of a forward pass is out of range
C33_LengthsAgree ==
    /\ \A k \in Stages \ {0} : TotalInput(k) = Produced(Producers(k))
    /\ TotalInput(12) = TotalOutput(11) + TotalOutput(4)
    /\ BufLen(InputData) = 416 * 416 * 4
    /\ LG(0).input_size = 416 * 416 * 4
    /\ TotalInput(0) = LG(0).input_size
    /\ TotalOutput(10) = 13 * 13 * 256
    /\ TotalOutput(13) = 26 * 26 * 256
    /\ InStage =>
          /\ IsSome(inputs[grp_idx])
          /\ BufLen(Unwrap(inputs[grp_idx])) = TotalInput(grp_idx)
          /\ SlicesInRange(grp_idx, TotalInput(grp_idx) \div L.input_size)
    /\ pc = "transfer_inputs" => get_inputs(L, inputs[grp_idx], InputIdx).tag = "ok"
    /\ pc = "rewire" =>
          /\ IsSome(outputs[grp_idx])
          /\ BufLen(Unwrap(outputs[grp_idx])) = TotalOutput(grp_idx)
    /\ status = "ok" =>
          /\ BufLen(result[1][1]) = 13 * 13 * 256
          /\ BufLen(result[1][2]) = 26 * 26 * 256
    /\ error # "slice index out of range"

\* the last input slice of stage 12, the one that ends the concatenated
\* buffer, is about to be written
C33_Witness ==
    /\ pc = "transfer_inputs"
    /\ grp_idx = 12
    /\ iff = 11
    /\ get_inputs(L, inputs[12], 11).tag = "ok"
    /\ BufLen(Unwrap(inputs[12])) = 12 * L.input_size


----------------------------------------------------------------------------
(* start_processing called again on the same controller, after a call that *)
(* returned Ok: the buffers the earlier call left are still in their slots *)

\* the next call of start_processing, up to the first forward_layer_group;
\* ran and result are those of the call under way
StartProcessingAgain ==
    /\ UNCHANGED <<layer_groups, args, ret>>
    /\ pc = "returned"
    /\ status = "ok"
    /\ status' = "running"
    /\ inputs' = [inputs EXCEPT ![0] = Some(InputData)]
    /\ grp_idx' = 0
    /\ off' = 0
    /\ iff' = 0
    /\ npass' = 0
    /\ polls' = 0
    /\ log' = <<>>
    /\ pc' = "configure"
    /\ acc_input_buff' = ZeroVec(LG(0).acc_size)
    /\ acc_output_buff' = ZeroVec(LG(0).acc_size)
    /\ ran' = <<>>
    /\ result' = None
    /\ UNCHANGED <<outputs, weights, biases, error>>

NextAgain ==
    \/ Next
    \/ StartProcessingAgain

SpecAgain == Init /\ [][NextAgain]_vars

\* an earlier call has returned Ok: the input of stage 13 is still in place
\* while an earlier stage runs
LaterCall == pc # "idle" /\ grp_idx < 12 /\ IsSome(inputs[13])

\* C34: after any sequence of successful start_processing calls every
\* output slot is empty, and in every call the output of each stage and the
\* input of stage 12 are as long as in the first call: output_size *
\* output_fold_factor, and the outputs of stages 11 and 4 together
C34_NoGrowth ==
    /\ (pc = "returned" /\ status = "ok") => \A k \in Stages : outputs[k] = None
    /\ pc = "rewire" =>
          /\ IsSome(outputs[grp_idx])
          /\ BufLen(Unwrap(outputs[grp_idx])) = TotalOutput(grp_idx)
    /\ (pc = "configure" /\ grp_idx = 0 /\ npass = 0) => \A k \in Stages : outputs[k] = None
    /\ (pc \in {"rewire", "concat"} /\ grp_idx = 11) => outputs[4] = Some(StageOutput(4))
    /\ (InStage /\ grp_idx = 12) =>
          BufLen(Unwrap(inputs[12])) = TotalOutput(11) + TotalOutput(4)
    /\ status = "ok" =>
          /\ BufLen(result[1][1]) = TotalOutput(10)
          /\ BufLen(result[1][2]) = TotalOutput(13)

\* in a later call stage 12 is entered on an input that is again the
\* outputs of stages 11 and 4 of this call, no longer
C34_Witness ==
    /\ pc = "configure"
    /\ grp_idx = 12
    /\ npass = 0
    /\ IsSome(inputs[13])
    /\ inputs[12] = Some(StageOutput(11) \o StageOutput(4))
    /\ outputs[4] = None


----------------------------------------------------------------------------
(* get_weights called on its own, on the weights init has loaded *)

\* the owner of a loaded controller is about to call
\* layer_groups[k].get_weights(off, iff)
InitWeights ==
    /\ layer_groups = layer_groups_init
    /\ weights = [k \in Stages |-> Some(WeightsFile(k))]
    /\ biases = [k \in Stages |-> Some(BiasesFile(k))]
    /\ inputs = [k \in Stages |-> None]
    /\ outputs = [k \in Stages |-> None]
    /\ pc = "call"
    /\ status = "init"
    /\ error = ""
    /\ grp_idx = 0
    /\ off = 0
    /\ iff = 0
    /\ polls = 0
    /\ acc_input_buff = <<>>
    /\ acc_output_buff = <<>>
    /\ log = <<>>
    /\ npass = 0
    /\ ran = <<>>
    /\ result = None
    /\ ret = <<>>
    /\ \E k \in Stages :
          \E o \in 0 .. layer_groups_init[k + 1].output_fold_factor - 1 :
              \E i \in 0 .. layer_groups_init[k + 1].input_fold_factor - 1 :
                  args = [k |-> k, off |-> o, iff |-> i]

\* layer_groups[k].get_weights(off, iff)
GetWeightsCall ==
    /\ pc = "call"
    /\ ret' = [fn |-> "get_weights",
               out |-> get_weights(LG(args.k), weights[args.k], args.off, args.iff)]
    /\ pc' = "returned"
    /\ UNCHANGED <<ctl, args>>

NextWeights == GetWeightsCall

SpecWeights == InitWeights /\ [][NextWeights]_vars

\* the <<off, iff>> of the sub-passes of stage k
Folds(k) == (0 .. LG(k).output_fold_factor - 1) \X (0 .. LG(k).input_fold_factor - 1)

\* the indexes of the weights buffer that the slice of the sub-pass f holds
SliceOf(k, f) ==
    LET s == get_weights(LG(k), weights[k], f[1], f[2]).val[1]
    IN <<s.beg, s.beg + s.len - 1>>

\* C35: get_weights(off, iff) returns the weight_size = 12 * input_ch *
\* output_ch elements that start at weight_size * (output_fold_factor * iff
\* + off); over all off and iff of the stage these slices are pairwise
\* disjoint and together are the first weight_size * output_fold_factor *
\* input_fold_factor elements of the weights buffer
C35_WeightSlices ==
    pc = "returned" =>
        LET k == args.k
            size == 12 * LG(k).input_ch * LG(k).output_ch
            total == size * LG(k).output_fold_factor * LG(k).input_fold_factor
            mine == SliceOf(k, <<args.off, args.iff>>)
        IN /\ ret.out = Ok(<<Seg("weights", k, 0, 0,
                                 size * (LG(k).output_fold_factor * args.iff + args.off), size)>>)
           /\ \A f \in Folds(k) :
                 /\ get_weights(LG(k), weights[k], f[1], f[2]).tag = "ok"
                 /\ f # <<args.off, args.iff>> =>
                       SliceOf(k, f)[2] < mine[1] \/ mine[2] < SliceOf(k, f)[1]
           /\ {SliceOf(k, f)[1] : f \in Folds(k)}
                 = {size * n : n \in 0 .. Cardinality(Folds(k)) - 1}
           /\ mine[2] < total

\* the last slice of stage 7, the stage with the most sub-passes
C35_Witness ==
    /\ pc = "returned"
    /\ args = [k |-> 7, off |-> 31, iff |-> 15]
    /\ ret.out.tag = "ok"
    /\ ret.out.val[1].beg = 12288 * 511
    /\ ret.out.val[1].len = 12288


----------------------------------------------------------------------------
(* A forward pass on hardware that answers: a DMA channel reports idle      *)
(* after a write and a started unit reports done after at most MaxPolls     *)
(* busy answers; a unit that was not started in the sub-pass never reports  *)
(* done, and the loop polling it goes round without end.                    *)

\* the unit has been started since the sub-pass was configured
Started(unit) == \E n \in 1 .. Len(log) : log[n] = StartEv(unit)

\* wait_acc_ip on such hardware
WaitAccIpStarted ==
    /\ Started("acc")
    /\ WaitAccIp

\* wait_ips on such hardware
WaitIpsStarted ==
    /\ Started(wait_ips_unit(L))
    /\ WaitIps

NextLive ==
    \/ StartProcessing
    \/ ConfigureAllIps
    \/ ConfigureConvAndAccIps
    \/ TransferWeights
    \/ WeightsIdle
    \/ TransferBiases
    \/ BiasesIdle
    \/ TransferAccInput
    \/ TransferInputs
    \/ TransferAccOutput
    \/ TransferOutput
    \/ WaitAccIpStarted
    \/ WaitIpsStarted
    \/ Rewire
    \/ Concat
    \/ Finish

\* the controller is one thread that keeps running
SpecLive == Init /\ [][NextLive]_vars /\ WF_vars(NextLive)

\* the unit whose done flag the controller is polling
Awaited == IF pc = "wait_acc" THEN "acc" ELSE wait_ips_unit(L)

\* C36: on hardware whose DMA channels report idle after a write and whose
\* started units report done, a start_processing that has begun eventually
\* returns; and in every sub-pass of the fourteen stages the unit whose done
\* flag is awaited was started in that same sub-pass
C36_Terminates ==
    /\ [](Waiting => Started(Awaited))
    /\ (status = "running") ~> (pc = "returned")

\* the call has returned Ok after the last wait, that of stage 13 on the
\* yolo unit started in its last sub-pass
C36_Witness ==
    /\ pc = "returned"
    /\ status = "ok"
    /\ grp_idx = 13
    /\ Started("yolo")
    /\ log[Len(log)] = DoneEv("yolo")
    /\ polls = 0


----------------------------------------------------------------------------
(* utils::fix_to_float, the bit-by-bit decoder, next to fix2float *)

\* a + b on f32: exact here, every sum of the loop being a multiple of 2^-8
\* below 2^8 in size, which fits the 24 bits of an f32 significand
F32Add(a, b) ==
    IF a[1] = 0 THEN b
    ELSE IF b[1] = 0 THEN a
    ELSE LET e == IF a[2] < b[2] THEN a[2] ELSE b[2]
         IN F32(a[1] * 2 ^ (a[2] - e) + b[1] * 2 ^ (b[2] - e), e)

\* `(input >> i) & 1` on an i16: the shift keeps the sign
input_shift_bit(input, i) == (input \div 2 ^ i) % 2

\* `for i in 0..bit_width` from i on, output being the sum so far
RECURSIVE fix_to_float_bits(_, _, _)
fix_to_float_bits(input, i, output) ==
    LET bit_width == 16
    IN IF i >= bit_width THEN output
       ELSE fix_to_float_bits(input, i + 1,
               IF input_shift_bit(input, i) = 1 /\ i < bit_width \div 2
               THEN F32Add(output, powi2(-(bit_width \div 2 - i)))
               ELSE IF input_shift_bit(input, i) = 1 /\ bit_width \div 2 <= i
                    THEN IF i - bit_width \div 2 = 7
                         THEN F32Add(output, F32Neg(powi2(i - bit_width \div 2)))
                         ELSE F32Add(output, powi2(i - bit_width \div 2))
                    ELSE output)

\* fix_to_float with the loop starting at bit 1
fix_to_float_from_bit_1(input) == fix_to_float_bits(input, 1, <<0, 0>>)

\* utils::fix_to_float
fix_to_float(input) == fix_to_float_bits(input, 0, <<0, 0>>)

\* fix_to_float(input)
FixToFloatCall ==
    /\ pc = "call"
    /\ ret' = [fn |-> "fix_to_float", out |-> fix_to_float(args.input), first |-> None]
    /\ pc' = "returned"
    /\ UNCHANGED <<ctl, args>>

NextDec ==
    \/ FixToFloatCall
    \/ Fix2FloatCall

SpecDec == InitFix /\ [][NextDec]_vars

\* C37: for every 16-bit signed input v the bit-by-bit fix_to_float of
\* utils.rs and the division-based fix2float of postprocess.rs return the
\* same value, v / 256
C37_DecodersAgree ==
    pc = "returned" =>
        /\ ret.out = F32(args.input, -8)
        /\ fix_to_float(args.input) = fix2float(args.input)
        /\ Abs(ret.out[1]) < 2 ^ 24

\* -32768, the input whose only set bit is the sign bit, decoded bit by bit
C37_Witness ==
    /\ pc = "returned"
    /\ ret.fn = "fix_to_float"
    /\ args.input = I16_MIN
    /\ ret.out = <<-1, 7>>


----------------------------------------------------------------------------
(* The index into ACTIVE_EN *)

\* the indexes into ACTIVE_EN that the yolo unit has been set with in the
\* sub-pass
YoloIndexes ==
    {log[n].i : n \in {m \in 1 .. Len(log) : log[m].op = "set" /\ log[m].unit = "yolo"}}

\* C38: the table ACTIVE_EN, of length 8, is never indexed out of range: the
\* Yolo stages of the fixed configuration are 10 and 13, and in every
\* sub-pass that configures the yolo unit the index, the output fold off,
\* is below 8
C38_ActiveEnInRange ==
    /\ ACTIVE_EN_LEN = 8
    /\ \A k \in Stages : LG(k).post_process_type = "Yolo" <=> k \in {10, 13}
    /\ \A k \in {10, 13} : LG(k).output_fold_factor <= 8
    /\ \A i \in YoloIndexes : 0 <= i /\ i < 8
    /\ (InSubPass /\ YoloIndexes # {}) => YoloIndexes = {off} /\ grp_idx \in {10, 13}
    /\ (pc = "configure" /\ L.post_process_type = "Yolo") => off < 8
    /\ error # "index out of bounds"

\* the last output fold of stage 13 has set the yolo unit with the last
\* entry of the table
C38_Witness ==
    /\ pc = "transfer_weights"
    /\ grp_idx = 13
    /\ off = 7
    /\ YoloIndexes = {7}

====
